---- MODULE Spec2Model ----
(***************************************************************************)
(* Tool fallbacks with tiny circuit breakers                               *)
(* (src/patterns/tool-fallbacks/examples/py/main.py).                      *)
(*                                                                         *)
(* The module models the CircuitBreaker class (rolling window of           *)
(* outcomes, closed / open / probe state machine, cooldown on the          *)
(* monotonic clock) and the two clients that guard their calls with it.    *)
(*                                                                         *)
(* Numbers.  Durations and clock readings are milliseconds, kept as        *)
(* integers.  max_fail_rate is kept in percent (0.4 -> 40): for window     *)
(* lengths up to 44 the float comparison fails / len >= 0.4 agrees with    *)
(* fails * 100 >= 40 * len, and int(0.95 * (n - 1)) agrees with            *)
(* (95 * (n - 1)) \div 100.                                                *)
(*                                                                         *)
(* Time.  asyncio runs a coroutine without interruption between two        *)
(* awaits, so every action is one such uninterrupted segment; the clock    *)
(* readings of one segment are taken at the same instant `now`.            *)
(***************************************************************************)
EXTENDS Integers, Sequences, FiniteSets, TLC

VARIABLES
    conf,   \* endpoint -> constructor arguments of its CircuitBreaker
    brk,    \* endpoint -> the CircuitBreaker object's fields
    now,    \* reading of the monotonic clock, ms
    chains, \* chain -> the get_price / allergens_for run of that task, at its current await
    price_cache, \* sku -> <<>> or <<[cents, ts]>>
    runs,   \* number of runs started so far
    hist,   \* history: endpoint -> every sample reported to the breaker, in report order
    tripAt, \* history: endpoint -> clock reading of the last step that moved the state into open (-1: none)
    probed  \* history: endpoint -> enter_probe moved the state to probe since the state last moved into open

vars == <<conf, brk, now, chains, price_cache, runs, hist, tripAt, probed>>
clientVars == <<chains, price_cache, runs>>

Regions == {"us-east", "us-west"}
Endpoints == Regions \cup {"allergen"}

----------------------------------------------------------------------------
(* Bounds of the model *)

\* Window capacity of the breaker under unit test.
TestSampleSize == 3
\* Number of samples reported to one breaker in a unit run.
MaxReports == 5
\* Number of clock ticks in a unit run.
MaxTicks == 5
\* Number of samples fed in a run of the failure-rate scenario.
MaxTripReports == 10
\* Number of samples fed in a run of the latency scenario.
MaxLatencyReports == 20
\* Number of concurrent tasks running chains.
NumChains == 2
\* Number of get_price / allergens_for runs started in one behaviour.
MaxRuns == 2
\* Number of get_price runs started in one behaviour of the probe scenario.
MaxProbeRuns == 3
\* Number of idle gaps (each one cooldown long) between runs.
MaxIdleGaps == 1
\* Number of clock ticks spent awaiting calls between two idle gaps.
MaxBusyTicks == 1

----------------------------------------------------------------------------
(* Helpers *)

Min(a, b) == IF a <= b THEN a ELSE b

Range(s) == {s[i] : i \in 1..Len(s)}

\* Insert v into the ascending sequence s.
RECURSIVE Insert(_, _)
Insert(v, s) ==
    IF s = <<>> THEN <<v>>
    ELSE IF v <= Head(s) THEN <<v>> \o s
    ELSE <<Head(s)>> \o Insert(v, Tail(s))

\* sorted(values): ascending.
RECURSIVE sorted(_)
sorted(values) ==
    IF values = <<>> THEN <<>> ELSE Insert(Head(values), sorted(Tail(values)))

\* Sequences index from 1, Python lists from 0.
p95_index(n) == Min(n - 1, (95 * (n - 1)) \div 100)

p95_rank_last(values) ==
    IF values = <<>> THEN 0 ELSE sorted(values)[Len(values)]

p95(values) ==
    IF values = <<>> THEN 0
    ELSE sorted(values)[p95_index(Len(values)) + 1]

----------------------------------------------------------------------------
(* CircuitBreaker *)

States == {"closed", "open", "probe"}

\* CircuitBreaker(sample_size, max_fail_rate, cooldown_ms, max_p95_ms, name)
Config(sample_size, max_fail_pct, cooldown_ms, max_p95_ms) ==
    [sample_size |-> sample_size, max_fail_pct |-> max_fail_pct,
     cooldown_ms |-> cooldown_ms, max_p95_ms |-> max_p95_ms]

NewBreaker == [state |-> "closed", last_opened_at_ms |-> 0, outcomes |-> <<>>]

\* A sample is <<ms, ok>>.
Ms(o) == o[1]
Ok(o) == o[2]

can_probe_no_cooldown(b, cf, t) == b.state = "open"

can_probe(b, cf, t) ==
    IF b.state # "open" THEN FALSE
    ELSE (t - b.last_opened_at_ms) >= cf.cooldown_ms

enter_probe_noop(b, cf, t) == b

enter_probe(b, cf, t) ==
    IF can_probe(b, cf, t) THEN [b EXCEPT !.state = "probe"] ELSE b

push_outcome_drop_newest(b, cf, ms, ok) ==
    LET o == Append(b.outcomes, <<ms, ok>>)
    IN  [b EXCEPT !.outcomes =
            IF Len(o) > cf.sample_size THEN SubSeq(o, 1, Len(o) - 1) ELSE o]

push_outcome_lost(b, cf, ms, ok) == b

push_outcome(b, cf, ms, ok) ==
    LET o == Append(b.outcomes, <<ms, ok>>)
    IN  [b EXCEPT !.outcomes = IF Len(o) > cf.sample_size THEN Tail(o) ELSE o]

Fails(outcomes) == Cardinality({i \in 1..Len(outcomes) : ~Ok(outcomes[i])})

Durations(outcomes) == [i \in 1..Len(outcomes) |-> Ms(outcomes[i])]

\* fail_rate >= max_fail_rate, with fail_rate = fails / len, 0.0 for no samples.
FailRateTrips(outcomes, cf) ==
    IF outcomes = <<>> THEN 0 >= cf.max_fail_pct
    ELSE Fails(outcomes) * 100 >= cf.max_fail_pct * Len(outcomes)

P95Trips(outcomes, cf) == p95(Durations(outcomes)) >= cf.max_p95_ms

Trips(outcomes, cf) == FailRateTrips(outcomes, cf) \/ P95Trips(outcomes, cf)

evaluate_strict(b, cf, t) ==
    IF b.state # "open"
       /\ (Fails(b.outcomes) * 100 > cf.max_fail_pct * Len(b.outcomes)
           \/ p95(Durations(b.outcomes)) > cf.max_p95_ms)
    THEN [b EXCEPT !.state = "open", !.last_opened_at_ms = t]
    ELSE b

evaluate_restamp(b, cf, t) ==
    IF Trips(b.outcomes, cf)
    THEN [b EXCEPT !.state = "open", !.last_opened_at_ms = t]
    ELSE b

evaluate(b, cf, t) ==
    IF b.state # "open" /\ Trips(b.outcomes, cf)
    THEN [b EXCEPT !.state = "open", !.last_opened_at_ms = t]
    ELSE b

success_push_only(b, cf, ms, t) ==
    LET pushed == push_outcome(b, cf, ms, TRUE)
    IN  IF pushed.state = "probe" THEN [pushed EXCEPT !.state = "closed"] ELSE pushed

success_closes_open(b, cf, ms, t) ==
    LET pushed == push_outcome(b, cf, ms, TRUE)
    IN  IF pushed.state \in {"probe", "open"}
        THEN [pushed EXCEPT !.state = "closed"] ELSE evaluate(pushed, cf, t)

success(b, cf, ms, t) ==
    LET pushed == push_outcome(b, cf, ms, TRUE)
        closed == IF pushed.state = "probe"
                  THEN [pushed EXCEPT !.state = "closed"] ELSE pushed
    IN  evaluate(closed, cf, t)

failure(b, cf, ms, t) == evaluate(push_outcome(b, cf, ms, FALSE), cf, t)

----------------------------------------------------------------------------
(* Metrics the breaker emits *)

\* emit("breaker_state_change", {"name": self._name, "state": self._state})
StateChange(name, state) ==
    [event |-> "breaker_state_change", name |-> name, state |-> state]

\* emit("breaker_rolling", {name, size, fail_rate, p95_ms}); the rate as a
\* percentage, round(fail_rate, 2) of a window short enough to have no tie.
Rolling(name, outcomes) ==
    [event |-> "breaker_rolling", name |-> name, size |-> Len(outcomes),
     fail_pct |-> IF outcomes = <<>> THEN 0
                  ELSE (200 * Fails(outcomes) + Len(outcomes)) \div (2 * Len(outcomes)),
     p95_ms |-> p95(Durations(outcomes))]

\* What enter_probe() emits, called on b at time t.
enter_probe_emits(b, cf, t, name) ==
    IF can_probe(b, cf, t) THEN <<StateChange(name, "probe")>> ELSE <<>>

evaluate_emits_rolling_only(b, cf, name) == <<Rolling(name, b.outcomes)>>

\* What _evaluate() emits, called on b.
evaluate_emits(b, cf, name) ==
    <<Rolling(name, b.outcomes)>>
        \o (IF b.state # "open" /\ Trips(b.outcomes, cf)
            THEN <<StateChange(name, "open")>> ELSE <<>>)

\* What success(ms) emits, called on b.
success_emits(b, cf, ms, name) ==
    LET pushed == push_outcome(b, cf, ms, TRUE)
        closed == IF pushed.state = "probe"
                  THEN [pushed EXCEPT !.state = "closed"] ELSE pushed
    IN  (IF pushed.state = "probe" THEN <<StateChange(name, "closed")>> ELSE <<>>)
            \o evaluate_emits(closed, cf, name)

\* What failure(ms) emits, called on b.
failure_emits(b, cf, ms, name) ==
    evaluate_emits(push_outcome(b, cf, ms, FALSE), cf, name)

----------------------------------------------------------------------------
(* History variables *)

\* tripAt after a step at time `now` that leaves the breakers bs.
TripAfter(bs) ==
    [e \in Endpoints |->
        IF brk[e].state # "open" /\ bs[e].state = "open" THEN now ELSE tripAt[e]]

\* probed after a step that leaves the breakers bs.
ProbedAfter(bs) ==
    [e \in Endpoints |->
        IF brk[e].state # "open" /\ bs[e].state = "open" THEN FALSE
        ELSE IF brk[e].state = "open" /\ bs[e].state = "probe" THEN TRUE
        ELSE probed[e]]

\* A step that reported the sample <<ms, ok>> to the breaker of e, leaving it as b2.
Reported(e, ms, ok, b2) ==
    /\ brk' = [brk EXCEPT ![e] = b2]
    /\ hist' = [hist EXCEPT ![e] = Append(@, <<ms, ok>>)]
    /\ tripAt' = TripAfter([brk EXCEPT ![e] = b2])
    /\ probed' = ProbedAfter([brk EXCEPT ![e] = b2])

----------------------------------------------------------------------------
(* Fallback store and estimation *)

Skus == {"SKU_TOMATO", "SKU_STEAK"}

\* The wall clock runs with the monotonic clock; the module is imported 12 h
\* after the oldest seeded cache entry was written.
WallStart == 12 * 60 * 60 * 1000
now_ms_wall == WallStart + now

\* price_cache as seeded at import: SKU_TOMATO, 199 cents, 12 h old.
SeedCache ==
    [sku \in Skus |->
        IF sku = "SKU_TOMATO" THEN <<[cents |-> 199, ts |-> 0]>> ELSE <<>>]

\* fetch_supplier_price: 100 + (sum of the sku's character codes) % 400.
SupplierPrice(sku) == IF sku = "SKU_TOMATO" THEN 106 ELSE 414

baseline_estimate_cents(sku) == IF sku = "SKU_STEAK" THEN 399 ELSE 250

freshness_label(ts_ms) ==
    LET age_ms == now_ms_wall - ts_ms
        hours == age_ms \div (1000 * 60 * 60)
        mins == (age_ms % (1000 * 60 * 60)) \div (1000 * 60)
    IN  IF hours > 0
        THEN [hours |-> hours, mins |-> mins, text |-> "{hours}h {mins}m old"]
        ELSE [hours |-> 0, mins |-> mins, text |-> "{mins}m old"]

----------------------------------------------------------------------------
(* Tool wrappers with fallbacks *)

Chains == 1..NumChains

\* SupplierClient.__init__: CircuitBreaker(40, 0.4, 15_000, 1_200, ...) per region
SupplierConfig == Config(40, 40, 15000, 1200)

\* AllergenClient.__init__: CircuitBreaker(30, 0.35, 12_000, 1_000, "allergen")
AllergenConfig == Config(30, 35, 12000, 1000)

ClientConfig ==
    [e \in Endpoints |-> IF e \in Regions THEN SupplierConfig ELSE AllergenConfig]

\* with_timeout(..., 900, ...) and the duration reported with a failure
SupplierTimeoutMs == 900
SupplierFailureMs == 900
\* with_timeout(..., 800, ...) and the duration reported with a failure
AllergenTimeoutMs == 800
AllergenFailureMs == 800

TimeoutMs(e) == IF e \in Regions THEN SupplierTimeoutMs ELSE AllergenTimeoutMs

\* The label handed to with_timeout for the call of e.
Label(e) ==
    IF e = "us-east" THEN "supplier_us-east"
    ELSE IF e = "us-west" THEN "supplier_us-west"
    ELSE "allergen"

\* The messages of the exceptions the mock integrations raise.
ErrorMessages(e) ==
    IF e \in Regions THEN {<<"429_throttle">>, <<"502_bad_gateway">>}
    ELSE {<<"invalid_json_schema_change">>}

\* The awaited coroutine, as with_timeout finds it: it returned a value, it
\* raised, or it is still running.
Returned(value) == [kind |-> "value", value |-> value]
Raised(message) == [kind |-> "error", message |-> message]
Pending == [kind |-> "pending"]

with_timeout_tagged(coro, ms, label, elapsed) ==
    IF coro.kind = "value" /\ elapsed < ms
    THEN [raises |-> FALSE, value |-> coro.value]
    ELSE [raises |-> FALSE, value |-> <<"failed", label>>]

\* with_timeout(coro, ms, label), `elapsed` ms after the call was started:
\* what it returns or raises to its caller.
with_timeout_no_deadline(coro, ms, label, elapsed) ==
    IF coro.kind = "pending"
    THEN [raises |-> TRUE, type |-> "TimeoutError", message |-> <<"timeout_", label>>]
    ELSE IF coro.kind = "error"
    THEN [raises |-> TRUE, type |-> "Exception", message |-> coro.message]
    ELSE [raises |-> FALSE, value |-> coro.value]

with_timeout(coro, ms, label, elapsed) ==
    IF coro.kind = "pending" \/ elapsed >= ms
    THEN [raises |-> TRUE, type |-> "TimeoutError", message |-> <<"timeout_", label>>]
    ELSE IF coro.kind = "error"
    THEN [raises |-> TRUE, type |-> "Exception", message |-> coro.message]
    ELSE [raises |-> FALSE, value |-> coro.value]

\* `"timeout" in str(err).lower()`
MentionsTimeoutNever(message) == FALSE

MentionsTimeout(message) == message[1] = "timeout_"

\* The recipe of main(): locally tagged dairy; the checker finds dairy and gluten.
MainRecipeTags == <<"dairy">>
CheckerItems == {"dairy", "gluten"}
\* llm_complete always answers "gluten, dairy, nuts, soy"; split at the
\* commas, stripped and lower-cased.
LlmItems == <<"gluten", "dairy", "nuts", "soy">>

\* tag.lower()
Lower(tag) ==
    IF tag = "Sesame" THEN "sesame"
    ELSE IF tag = "DAIRY" THEN "dairy"
    ELSE tag

\* sorted(set(tag.lower() for tag in recipe.allergen_tags)), as a set
LocalTags(allergen_tags) == {Lower(allergen_tags[i]) : i \in 1..Len(allergen_tags)}

merge_substitute(local, llm_items) == Range(llm_items)

\* sorted(set(local).union(llm_items)), as a set
merge(local, llm_items) == local \cup Range(llm_items)

IdleChain ==
    [kind |-> "none", pc |-> "idle", sku |-> "", primary |-> "", step |-> "",
     region |-> "", start |-> 0, tags |-> <<>>, reasons |-> <<>>, result |-> <<>>,
     trail |-> <<>>]

\* The state after construction, the price cache holding `cache`.
InitState(cache) ==
    /\ brk = [e \in Endpoints |-> NewBreaker]
    /\ now = 0
    /\ chains = [c \in Chains |-> IdleChain]
    /\ price_cache = cache
    /\ runs = 0
    /\ hist = [e \in Endpoints |-> <<>>]
    /\ tripAt = [e \in Endpoints |-> -1]
    /\ probed = [e \in Endpoints |-> FALSE]

InitRest == InitState(SeedCache)

Mirror(preferred) == IF preferred = "us-east" THEN "us-west" ELSE "us-east"

ErrorTagMirror(region) == "supplier_error_mirror"

ErrorTag(region) ==
    IF region = "us-east" THEN "supplier_error_us-east" ELSE "supplier_error_us-west"

\* `brk.state() == "open" and not brk.can_probe()`
Blocked(b, cf, t) == b.state = "open" /\ ~can_probe(b, cf, t)

GateNoProbe(b, cf, t) == b

\* `if brk.can_probe(): brk.enter_probe()`
Gate(b, cf, t) == IF can_probe(b, cf, t) THEN enter_probe(b, cf, t) ELSE b

NoteSilent(ch, tag, event) == [ch EXCEPT !.trail = Append(@, event)]

Note(ch, tag, event) ==
    [ch EXCEPT !.reasons = Append(@, tag), !.trail = Append(@, event)]

\* The call of `region` is started: the coroutine waits in with_timeout.
Calling(ch, step, region, b) ==
    [ch EXCEPT !.pc = "calling", !.step = step, !.region = region, !.start = now,
               !.trail = Append(@, <<"call", region, b.state>>)]

\* The run returns `result` to its caller; its locals are gone, the request
\* it answered is remembered.
Done(ch, result, event) ==
    [IdleChain EXCEPT !.kind = ch.kind, !.pc = "done", !.sku = ch.sku,
                      !.primary = ch.primary, !.tags = ch.tags,
                      !.result = <<result>>, !.trail = Append(ch.trail, event)]

PriceFallbackCacheOnly(ch) ==
    LET cached == price_cache[ch.sku]
    IN  IF cached # <<>>
        THEN Done(ch, [cents |-> cached[1].cents, is_degraded |-> TRUE,
                       reasons |-> Append(ch.reasons, "used_cache"),
                       freshness |-> <<freshness_label(cached[1].ts)>>],
                  <<"cache">>)
        ELSE [ch EXCEPT !.pc = "raised", !.trail = Append(@, <<"cache_miss">>)]

PriceFallbackTagsMiss(ch) ==
    LET cached == price_cache[ch.sku]
    IN  IF cached # <<>>
        THEN Done(ch, [cents |-> cached[1].cents, is_degraded |-> TRUE,
                       reasons |-> Append(ch.reasons, "used_cache"),
                       freshness |-> <<freshness_label(cached[1].ts)>>],
                  <<"cache">>)
        ELSE Done([ch EXCEPT !.trail = Append(@, <<"cache_miss">>)],
                  [cents |-> baseline_estimate_cents(ch.sku), is_degraded |-> TRUE,
                   reasons |-> ch.reasons \o <<"cache_miss", "used_baseline">>,
                   freshness |-> <<>>],
                  <<"baseline">>)

\* get_price from its cache step on: cache, then baseline estimate.
PriceFallbackFreshOnly(ch) ==
    LET cached == price_cache[ch.sku]
    IN  IF cached # <<>> /\ freshness_label(cached[1].ts).hours = 0
        THEN Done(ch, [cents |-> cached[1].cents, is_degraded |-> TRUE,
                       reasons |-> Append(ch.reasons, "used_cache"),
                       freshness |-> <<freshness_label(cached[1].ts)>>],
                  <<"cache">>)
        ELSE Done([ch EXCEPT !.trail = Append(@, <<"cache_miss">>)],
                  [cents |-> baseline_estimate_cents(ch.sku), is_degraded |-> TRUE,
                   reasons |-> Append(ch.reasons, "used_baseline"),
                   freshness |-> <<>>],
                  <<"baseline">>)

PriceFallback(ch) ==
    LET cached == price_cache[ch.sku]
    IN  IF cached # <<>>
        THEN Done(ch, [cents |-> cached[1].cents, is_degraded |-> TRUE,
                       reasons |-> Append(ch.reasons, "used_cache"),
                       freshness |-> <<freshness_label(cached[1].ts)>>],
                  <<"cache">>)
        ELSE Done([ch EXCEPT !.trail = Append(@, <<"cache_miss">>)],
                  [cents |-> baseline_estimate_cents(ch.sku), is_degraded |-> TRUE,
                   reasons |-> Append(ch.reasons, "used_baseline"),
                   freshness |-> <<>>],
                  <<"baseline">>)

\* get_price from attempt(mirror) on, up to its next await or its return.
PriceFromMirrorRetries(ch, bs) ==
    [chain |-> Calling(ch, "mirror", ch.primary, bs[ch.primary]), brk |-> bs]

PriceFromMirror(ch, bs) ==
    LET region == Mirror(ch.primary)
    IN  IF Blocked(bs[region], conf[region], now)
        THEN [chain |-> PriceFallback(Note(ch, "supplier_open", <<"skip", region>>)),
              brk |-> bs]
        ELSE LET b == Gate(bs[region], conf[region], now)
             IN  [chain |-> Calling(ch, "mirror", region, b),
                  brk |-> [bs EXCEPT ![region] = b]]

\* get_price from attempt(primary) on, up to its next await or its return.
PriceFromPrimaryHedged(ch, bs) ==
    LET region == ch.primary
    IN  PriceFromMirror(
            [ch EXCEPT !.trail = Append(@, <<"call", region, bs[region].state>>)], bs)

PriceFromPrimary(ch, bs) ==
    LET region == ch.primary
    IN  IF Blocked(bs[region], conf[region], now)
        THEN PriceFromMirror(Note(ch, "supplier_open", <<"skip", region>>), bs)
        ELSE LET b == Gate(bs[region], conf[region], now)
             IN  [chain |-> Calling(ch, "primary", region, b),
                  brk |-> [bs EXCEPT ![region] = b]]

\* allergens_for from its fallbacks on, up to the await of llm_complete.
AllergenFallback(ch) ==
    [ch EXCEPT !.pc = "llm",
               !.reasons = Append(@, "allergen_fallback_local_tags"),
               !.trail = Append(@, <<"local", LocalTags(ch.tags)>>) \o <<<<"llm_call">>>>]

\* allergens_for from its start, up to its first await.
AllergenFromPrimary(ch, bs) ==
    IF ~Blocked(bs["allergen"], conf["allergen"], now)
    THEN LET b == Gate(bs["allergen"], conf["allergen"], now)
         IN  [chain |-> Calling(ch, "primary", "allergen", b),
              brk |-> [bs EXCEPT !["allergen"] = b]]
    ELSE [chain |-> AllergenFallback(Note(ch, "allergen_open", <<"skip", "allergen">>)),
          brk |-> bs]

\* A segment of chain c that reported nothing to a breaker.
Proceed(c, r) ==
    /\ chains' = [chains EXCEPT ![c] = r.chain]
    /\ brk' = r.brk
    /\ tripAt' = TripAfter(r.brk)
    /\ probed' = ProbedAfter(r.brk)
    /\ UNCHANGED hist

\* A segment of chain c that reported the sample <<ms, ok>> to the breaker of e.
ProceedReported(c, r, e, ms, ok) ==
    /\ chains' = [chains EXCEPT ![c] = r.chain]
    /\ brk' = r.brk
    /\ tripAt' = TripAfter(r.brk)
    /\ probed' = ProbedAfter(r.brk)
    /\ hist' = [hist EXCEPT ![e] = Append(@, <<ms, ok>>)]

\* The task that takes the next request: the first one that awaits nothing.
Free(c) ==
    /\ chains[c].pc \in {"idle", "done"}
    /\ \A x \in Chains : x < c => chains[x].pc \notin {"idle", "done"}

\* A task calls supplier.get_price(sku, preferred).
StartPrice(c, sku, preferred, maxRuns) ==
    /\ Free(c)
    /\ runs < maxRuns
    /\ runs' = runs + 1
    /\ Proceed(c, PriceFromPrimary(
           [IdleChain EXCEPT !.kind = "price", !.sku = sku, !.primary = preferred], brk))
    /\ UNCHANGED <<conf, now, price_cache>>

\* A task calls allergens.allergens_for(recipe).
StartAllergen(c, allergen_tags, maxRuns) ==
    /\ Free(c)
    /\ runs < maxRuns
    /\ runs' = runs + 1
    /\ Proceed(c, AllergenFromPrimary(
           [IdleChain EXCEPT !.kind = "allergen", !.tags = allergen_tags], brk))
    /\ UNCHANGED <<conf, now, price_cache>>

\* PriceResult(cents=cents, is_degraded=len(reasons) > 0, reasons=reasons, ...)
AttemptResultAlwaysDegraded(ch, cents) ==
    [cents |-> cents, is_degraded |-> TRUE, reasons |-> ch.reasons, freshness |-> <<>>]

AttemptResultWithFreshness(ch, cents) ==
    [cents |-> cents, is_degraded |-> Len(ch.reasons) > 0, reasons |-> ch.reasons,
     freshness |-> <<freshness_label(now_ms_wall)>>]

AttemptResult(ch, cents) ==
    [cents |-> cents, is_degraded |-> Len(ch.reasons) > 0, reasons |-> ch.reasons,
     freshness |-> <<>>]

\* p2.reasons.append("used_mirror"); p2.is_degraded = True
MirrorResultUntagged(p2) ==
    [p2 EXCEPT !.is_degraded = TRUE]

MirrorResult(p2) ==
    [p2 EXCEPT !.reasons = Append(@, "used_mirror"), !.is_degraded = TRUE]

SuccessFallsThrough(ch, result, event, bs) ==
    LET logged == [ch EXCEPT !.trail = Append(@, event)]
    IN  [chain |-> IF ch.kind = "price" THEN PriceFallback(logged)
                   ELSE AllergenFallback(logged),
         brk |-> bs]

\* `return p1`, `return p2`, `return AllergenResult(...)` after a success.
SuccessReturnShared(ch, result, event, bs) ==
    [chain |-> Done(ch, result, event),
     brk |-> [x \in Endpoints |->
                IF ch.kind = "price" /\ x \in Regions THEN bs[ch.region] ELSE bs[x]]]

SuccessReturn(ch, result, event, bs) ==
    [chain |-> Done(ch, result, event), brk |-> bs]

\* The try branch of the attempt after with_timeout returned `value`.
CallSucceededNoCache(c, value) ==
    LET ch == chains[c]
        e == ch.region
        duration == now - ch.start
        b == success(brk[e], conf[e], duration, now)
        bs == [brk EXCEPT ![e] = b]
        event == <<"success", e, duration>>
    IN  /\ UNCHANGED price_cache
        /\ ProceedReported(c,
             SuccessReturn(ch,
                 IF ch.kind = "allergen"
                 THEN [items |-> value, is_degraded |-> FALSE, reasons |-> ch.reasons]
                 ELSE IF ch.step = "primary" THEN AttemptResult(ch, value)
                 ELSE MirrorResult(AttemptResult(ch, value)),
                 event, bs),
             e, duration, TRUE)
        /\ UNCHANGED <<conf, now, runs>>

CallSucceeded(c, value) ==
    LET ch == chains[c]
        e == ch.region
        duration == now - ch.start
        b == success(brk[e], conf[e], duration, now)
        bs == [brk EXCEPT ![e] = b]
        event == <<"success", e, duration>>
    IN  /\ IF ch.kind = "price"
           THEN /\ price_cache' = [price_cache EXCEPT ![ch.sku] =
                        <<[cents |-> value, ts |-> now_ms_wall]>>]
                /\ ProceedReported(c,
                     SuccessReturn(ch,
                         IF ch.step = "primary" THEN AttemptResult(ch, value)
                         ELSE MirrorResult(AttemptResult(ch, value)),
                         event, bs),
                     e, duration, TRUE)
           ELSE /\ UNCHANGED price_cache
                /\ ProceedReported(c,
                     SuccessReturn(ch,
                         [items |-> value, is_degraded |-> FALSE, reasons |-> ch.reasons],
                         event, bs),
                     e, duration, TRUE)
        /\ UNCHANGED <<conf, now, runs>>

\* The except branch of the attempt, with_timeout having raised r: report the
\* failure, go on with the chain.
CallFailedUnreported(c, r) ==
    LET ch == chains[c]
        e == ch.region
        tag == IF ch.kind = "price" THEN ErrorTag(e)
               ELSE IF MentionsTimeout(r.message) THEN "allergen_timeout"
               ELSE "allergen_invalid_json"
        kind == IF r.type = "TimeoutError" THEN "timeout" ELSE "error"
        caught == [ch EXCEPT !.trail = Append(@, <<"raised", e, r.type, r.message>>)]
        noted == Note(caught, tag, <<"failure", e, kind>>)
    IN  /\ Proceed(c,
             IF ch.kind = "allergen" THEN [chain |-> AllergenFallback(noted), brk |-> brk]
             ELSE IF ch.step = "primary" THEN PriceFromMirror(noted, brk)
             ELSE [chain |-> PriceFallback(noted), brk |-> brk])
        /\ UNCHANGED <<conf, now, price_cache, runs>>

CallFailed(c, r) ==
    LET ch == chains[c]
        e == ch.region
        ms == IF ch.kind = "price" THEN SupplierFailureMs ELSE AllergenFailureMs
        b == failure(brk[e], conf[e], ms, now)
        bs == [brk EXCEPT ![e] = b]
        tag == IF ch.kind = "price" THEN ErrorTag(e)
               ELSE IF MentionsTimeout(r.message) THEN "allergen_timeout"
               ELSE "allergen_invalid_json"
        kind == IF r.type = "TimeoutError" THEN "timeout" ELSE "error"
        caught == [ch EXCEPT !.trail = Append(@, <<"raised", e, r.type, r.message>>)]
        noted == Note(caught, tag, <<"failure", e, kind>>)
    IN  /\ ProceedReported(c,
             IF ch.kind = "allergen" THEN [chain |-> AllergenFallback(noted), brk |-> bs]
             ELSE IF ch.step = "primary" THEN PriceFromMirror(noted, bs)
             ELSE [chain |-> PriceFallback(noted), brk |-> bs],
             e, ms, FALSE)
        /\ UNCHANGED <<conf, now, price_cache, runs>>

\* The awaited with_timeout ends, the wrapped coroutine being as `coro`.
CallEnds(c, coro) ==
    LET ch == chains[c]
        e == ch.region
        r == with_timeout(coro, TimeoutMs(e), Label(e), now - ch.start)
    IN  IF r.raises THEN CallFailed(c, r) ELSE CallSucceeded(c, r.value)

\* The value the mock integration of chain c's call returns.
CallValue(c) ==
    IF chains[c].kind = "price" THEN SupplierPrice(chains[c].sku) ELSE CheckerItems

\* The protected call returns a value before its deadline.
CallReturns(c) ==
    /\ chains[c].pc = "calling"
    /\ now - chains[c].start < TimeoutMs(chains[c].region)
    /\ CallEnds(c, Returned(CallValue(c)))

\* The protected call raises before its deadline, with one of `messages`.
CallRaises(c, messages) ==
    /\ chains[c].pc = "calling"
    /\ now - chains[c].start < TimeoutMs(chains[c].region)
    /\ \E message \in messages[chains[c].region] : CallEnds(c, Raised(message))

\* The deadline of with_timeout passes before the call ends.
CallTimesOut(c) ==
    /\ chains[c].pc = "calling"
    /\ now - chains[c].start >= TimeoutMs(chains[c].region)
    /\ CallEnds(c, Pending)

\* The call was abandoned at its deadline: what it would return comes too
\* late, wait_for has cancelled it and with_timeout raises.
CallReturnsLate(c) ==
    /\ chains[c].pc = "calling"
    /\ now - chains[c].start >= TimeoutMs(chains[c].region)
    /\ CallEnds(c, Returned(CallValue(c)))

\* llm_complete returns; allergens_for merges and returns.
LlmReturns(c) ==
    LET ch == chains[c]
    IN  /\ ch.pc = "llm"
        /\ chains' = [chains EXCEPT ![c] =
              Done(ch, [items |-> merge(LocalTags(ch.tags), LlmItems),
                        is_degraded |-> TRUE,
                        reasons |-> Append(ch.reasons, "allergen_fallback_llm")],
                   <<"llm_done">>)]
        /\ UNCHANGED <<conf, brk, now, price_cache, runs, hist, tripAt, probed>>

InFlight == {c \in Chains : chains[c].pc \in {"calling", "llm"}}
Deadlines == {chains[c].start + TimeoutMs(chains[c].region) :
                 c \in {x \in Chains : chains[x].pc = "calling"}}

\* The clock is read at the instants of the calls' starts and deadlines.
ChainTick == SupplierTimeoutMs
IdleGapMs == SupplierConfig.cooldown_ms
\* Idle gaps taken so far; the awaits between two gaps take less than one gap.
GapsTaken == now \div IdleGapMs
Horizon == GapsTaken * IdleGapMs + MaxBusyTicks * ChainTick

\* Time passes while some call is awaited, no further than the next deadline.
Await ==
    /\ InFlight # {}
    /\ \A d \in Deadlines : now < d
    /\ \E t \in {now + ChainTick} \cup Deadlines :
          /\ t > now
          /\ t <= Horizon
          /\ \A d \in Deadlines \cup {now + ChainTick} : t <= d
          /\ now' = t
    /\ UNCHANGED <<conf, brk, hist, tripAt, probed, clientVars>>

\* Time passes between two requests: one cooldown of the supplier breakers.
IdleGap ==
    /\ InFlight = {}
    /\ GapsTaken < MaxIdleGaps
    /\ now' = now + IdleGapMs
    /\ UNCHANGED <<conf, brk, hist, tripAt, probed, clientVars>>

InitChains ==
    /\ conf = ClientConfig
    /\ InitRest

StartPriceStep ==
    \E c \in Chains, sku \in Skus, preferred \in Regions :
        StartPrice(c, sku, preferred, MaxRuns)
StartAllergenStep == \E c \in Chains : StartAllergen(c, MainRecipeTags, MaxRuns)
CallReturnsStep == \E c \in Chains : CallReturns(c)
\* The clients never look into the message of a supplier's error: the
\* scenarios with many runs raise one message per endpoint.
OneMessage == [e \in Endpoints |-> {CHOOSE message \in ErrorMessages(e) : TRUE}]
AllMessages == [e \in Endpoints |-> ErrorMessages(e)]

CallRaisesStep == \E c \in Chains : CallRaises(c, OneMessage)
CallTimesOutStep == \E c \in Chains : CallTimesOut(c)
CallReturnsLateStep == \E c \in Chains : CallReturnsLate(c)
LlmReturnsStep == \E c \in Chains : LlmReturns(c)

NextChains ==
    \/ StartPriceStep \/ StartAllergenStep
    \/ CallReturnsStep \/ CallRaisesStep \/ CallTimesOutStep \/ LlmReturnsStep
    \/ Await \/ IdleGap

SpecChains == InitChains /\ [][NextChains]_vars

----------------------------------------------------------------------------
(* Scheduling: the event loop lets time pass and fires every timer that is
   due; nothing makes an external call complete. *)

\* The loop sleeps until the earliest deadline of the calls awaited under
\* with_timeout.
AwaitDeadline ==
    /\ Deadlines # {}
    /\ \A d \in Deadlines : now < d
    /\ \E t \in Deadlines :
          /\ \A d \in Deadlines : t <= d
          /\ now' = t
    /\ UNCHANGED <<conf, brk, hist, tripAt, probed, clientVars>>

NextHang ==
    \/ StartPriceStep \/ StartAllergenStep
    \/ CallReturnsStep \/ CallRaisesStep \/ CallTimesOutStep \/ LlmReturnsStep
    \/ AwaitDeadline

SpecHang ==
    /\ InitChains
    /\ [][NextHang]_vars
    /\ WF_vars(AwaitDeadline)
    /\ \A c \in Chains : WF_vars(CallTimesOut(c))

----------------------------------------------------------------------------
(* Mixed scenario: get_price requests for one sku, preferring us-west, next
   to allergens_for requests. *)

MixedStartStep == \E c \in Chains : StartPrice(c, "SKU_STEAK", "us-west", MaxRuns)

NextMixed ==
    \/ MixedStartStep \/ StartAllergenStep
    \/ CallReturnsStep \/ CallRaisesStep \/ CallTimesOutStep \/ LlmReturnsStep
    \/ Await \/ IdleGap

SpecMixed == InitChains /\ [][NextMixed]_vars

----------------------------------------------------------------------------
(* Recovery scenario: the us-west breaker, a small window, is left by an
   earlier burst of reports in any state it can be in; from then on every
   call returns at once, a request preferring us-west arrives whenever its
   breaker lets a call through, and the clock runs through each cooldown. *)

RecoverRegion == "us-west"

\* The samples of the burst, which fills the window: a failure, a fast
\* success, a slow success.
RecoverSamples == {<<SupplierFailureMs, FALSE>>, <<100, TRUE>>, <<1200, TRUE>>}

RecoverBursts == [1..TestSampleSize -> RecoverSamples]

\* CircuitBreaker(sample_size, 0.4, 1000, 1200, ...), a window of a few samples
RecoverConfig == Config(TestSampleSize, 40, 1000, 1200)

\* Requests of the scenario: enough to replace the window and probe once more.
MaxRecoverRuns == TestSampleSize + 2

\* The breaker after the reports of h, made one after the other at time 0.
RECURSIVE Feed(_, _, _)
Feed(b, cf, h) ==
    IF h = <<>> THEN b
    ELSE Feed(IF Ok(Head(h)) THEN success(b, cf, Ms(Head(h)), 0)
              ELSE failure(b, cf, Ms(Head(h)), 0),
              cf, Tail(h))

InitRecover ==
    \E h \in RecoverBursts :
        LET b == Feed(NewBreaker, RecoverConfig, h)
        IN  /\ conf = [e \in Endpoints |-> RecoverConfig]
            /\ brk = [e \in Endpoints |-> IF e = RecoverRegion THEN b ELSE NewBreaker]
            /\ hist = [e \in Endpoints |-> IF e = RecoverRegion THEN h ELSE <<>>]
            /\ tripAt = [e \in Endpoints |->
                           IF e = RecoverRegion /\ b.state = "open" THEN 0 ELSE -1]
            /\ probed = [e \in Endpoints |-> FALSE]
            /\ now = 0
            /\ chains = [c \in Chains |-> IdleChain]
            /\ price_cache = SeedCache
            /\ runs = 0

\* A request arrives when the one before it has returned and the breaker of
\* its region lets a call through.
RecoverStartStep ==
    /\ InFlight = {}
    /\ ~Blocked(brk[RecoverRegion], conf[RecoverRegion], now)
    /\ \E c \in Chains : StartPrice(c, "SKU_STEAK", RecoverRegion, MaxRecoverRuns)

\* No call is awaited and the breaker is open: its cooldown passes.
RecoverGap ==
    /\ InFlight = {}
    /\ Blocked(brk[RecoverRegion], conf[RecoverRegion], now)
    /\ now' = now + conf[RecoverRegion].cooldown_ms
    /\ UNCHANGED <<conf, brk, hist, tripAt, probed, clientVars>>

NextRecover == RecoverStartStep \/ CallReturnsStep \/ RecoverGap

SpecRecover ==
    /\ InitRecover
    /\ [][NextRecover]_vars
    /\ WF_vars(RecoverStartStep)
    /\ WF_vars(CallReturnsStep)
    /\ WF_vars(RecoverGap)

----------------------------------------------------------------------------
(* Probe scenario: repeated get_price requests for one sku. *)

ProbeStartStep ==
    \E c \in Chains, preferred \in Regions :
        StartPrice(c, "SKU_TOMATO", preferred, MaxProbeRuns)

NextProbe ==
    \/ ProbeStartStep
    \/ CallReturnsStep \/ CallRaisesStep \/ CallTimesOutStep
    \/ Await \/ IdleGap

SpecProbe == InitChains /\ [][NextProbe]_vars

----------------------------------------------------------------------------
(* End-to-end scenario: get_price requests against a cache whose entry for
   SKU_TOMATO, 199 cents, was written 30 minutes before the first request. *)

ThirtyMinutesMs == 30 * 60 * 1000

ScenarioCache ==
    [sku \in Skus |->
        IF sku = "SKU_TOMATO"
        THEN <<[cents |-> 199, ts |-> WallStart - ThirtyMinutesMs]>> ELSE <<>>]

InitEndToEnd ==
    /\ conf = ClientConfig
    /\ InitState(ScenarioCache)

\* Every request of the scenario prefers us-west.
EndToEndStartStep ==
    \E c \in Chains, sku \in Skus : StartPrice(c, sku, "us-west", MaxRuns)
EndToEndRaisesStep == \E c \in Chains : CallRaises(c, AllMessages)

NextEndToEnd ==
    \/ EndToEndStartStep
    \/ CallReturnsStep \/ EndToEndRaisesStep \/ CallTimesOutStep \/ CallReturnsLateStep
    \/ Await \/ IdleGap

SpecEndToEnd == InitEndToEnd /\ [][NextEndToEnd]_vars

----------------------------------------------------------------------------
(* Allergen scenario: allergens_for requests for recipes whose local tags
   differ in case and in content from the estimator's items. *)

RecipeTagLists == {MainRecipeTags, <<"Sesame", "DAIRY">>}

AllergenStartStep ==
    \E c \in Chains, allergen_tags \in RecipeTagLists :
        StartAllergen(c, allergen_tags, MaxRuns)
AllergenRaisesStep == \E c \in Chains : CallRaises(c, AllMessages)

NextAllergen ==
    \/ AllergenStartStep
    \/ CallReturnsStep \/ AllergenRaisesStep \/ CallTimesOutStep \/ LlmReturnsStep
    \/ Await \/ IdleGap

SpecAllergen == InitChains /\ [][NextAllergen]_vars

----------------------------------------------------------------------------
(* Unit runs: one breaker, driven directly through its public methods. *)

UnitEndpoint == "allergen"

\* CircuitBreaker(sample_size, 0.4, 1000, 1200, ...)
UnitConfig == Config(TestSampleSize, 40, 1000, 1200)

\* Durations reported by the unit runs: well below and at max_p95_ms.
UnitDurations == {100, 1200}

UnitTick == UnitConfig.cooldown_ms \div 2

InitWith(cf) ==
    /\ conf = [e \in Endpoints |-> cf]
    /\ InitRest

Init == InitWith(UnitConfig)

\* The clock advances between two calls.
Tick(d, maxNow) ==
    /\ now + d <= maxNow
    /\ now' = now + d
    /\ UNCHANGED <<conf, brk, hist, tripAt, probed, clientVars>>

\* brk.success(ms)
Success(e, ms, maxReports) ==
    /\ Len(hist[e]) < maxReports
    /\ Reported(e, ms, TRUE, success(brk[e], conf[e], ms, now))
    /\ UNCHANGED <<conf, now, clientVars>>

\* brk.failure(ms)
Failure(e, ms, maxReports) ==
    /\ Len(hist[e]) < maxReports
    /\ Reported(e, ms, FALSE, failure(brk[e], conf[e], ms, now))
    /\ UNCHANGED <<conf, now, clientVars>>

\* brk.enter_probe()
EnterProbe(e) ==
    /\ brk' = [brk EXCEPT ![e] = enter_probe(brk[e], conf[e], now)]
    /\ probed' = ProbedAfter([brk EXCEPT ![e] = enter_probe(brk[e], conf[e], now)])
    /\ UNCHANGED <<conf, now, hist, tripAt, clientVars>>

UnitTickStep == Tick(UnitTick, MaxTicks * UnitTick)
UnitSuccess == \E ms \in UnitDurations : Success(UnitEndpoint, ms, MaxReports)
UnitFailure == \E ms \in UnitDurations : Failure(UnitEndpoint, ms, MaxReports)
UnitEnterProbe == EnterProbe(UnitEndpoint)

Next == UnitTickStep \/ UnitSuccess \/ UnitFailure \/ UnitEnterProbe

Spec == Init /\ [][Next]_vars

----------------------------------------------------------------------------
(* Failure-rate scenario: CircuitBreaker(10, 0.4, ...) fed samples whose
   durations stay below max_p95_ms. *)

TripConfig == Config(10, 40, 1000, 1200)
TripDurations == {100}
TripTick == TripConfig.cooldown_ms \div 2

InitTrip == InitWith(TripConfig)

TripTickStep == Tick(TripTick, MaxTicks * TripTick)
TripSuccess == \E ms \in TripDurations : Success(UnitEndpoint, ms, MaxTripReports)
TripFailure == \E ms \in TripDurations : Failure(UnitEndpoint, ms, MaxTripReports)
TripEnterProbe == EnterProbe(UnitEndpoint)

NextTrip == TripTickStep \/ TripSuccess \/ TripFailure \/ TripEnterProbe

SpecTrip == InitTrip /\ [][NextTrip]_vars

----------------------------------------------------------------------------
(* Latency scenario: breakers with max_p95_ms = 1000.  The allergen
   breaker's configuration is fed successes of 1200 only; the same thresholds
   with a small window are fed successes and failures with durations below,
   at and above max_p95_ms. *)


LatencySmallConfig == Config(TestSampleSize, 35, 12000, 1000)

LatencyDurations(cf) ==
    IF cf = AllergenConfig THEN {1200} ELSE {900, 1000, 1200}
LatencyFailureDurations(cf) ==
    IF cf = AllergenConfig THEN {} ELSE {900}
LatencyReports(cf) ==
    IF cf = AllergenConfig THEN MaxLatencyReports ELSE MaxReports
LatencyTick == AllergenConfig.cooldown_ms \div 2

InitLatency == \E cf \in {AllergenConfig, LatencySmallConfig} : InitWith(cf)

LatencyTickStep == Tick(LatencyTick, MaxTicks * LatencyTick)
LatencySuccess ==
    \E ms \in LatencyDurations(conf[UnitEndpoint]) :
        Success(UnitEndpoint, ms, LatencyReports(conf[UnitEndpoint]))
LatencyFailure ==
    \E ms \in LatencyFailureDurations(conf[UnitEndpoint]) :
        Failure(UnitEndpoint, ms, LatencyReports(conf[UnitEndpoint]))
LatencyEnterProbe == EnterProbe(UnitEndpoint)

NextLatency == LatencyTickStep \/ LatencySuccess \/ LatencyFailure \/ LatencyEnterProbe

SpecLatency == InitLatency /\ [][NextLatency]_vars

----------------------------------------------------------------------------
(* Steps and readings the properties speak about *)

\* This step reported one sample to the breaker of e.
ReportStep(e) == Len(hist'[e]) = Len(hist[e]) + 1
SuccessStep(e) == ReportStep(e) /\ Ok(hist'[e][Len(hist'[e])])
FailureStep(e) == ReportStep(e) /\ ~Ok(hist'[e][Len(hist'[e])])

\* Clock readings of a unit run from `now` on.
UnitReadings == {k * UnitTick : k \in 0..(2 * MaxTicks)}
LaterReadings == {t \in UnitReadings : t >= now}

\* The last n elements of s.
LastN(s, n) == SubSeq(s, Len(s) - n + 1, Len(s))

----------------------------------------------------------------------------
(* Properties of the breaker's state machine *)

\* C1: for a breaker in state probe, one call to success(ms) leaves the
\* breaker in state closed when the call returns, whatever its window holds.
C1_ProbeSuccessCloses ==
    [][\A e \in Endpoints :
        (brk[e].state = "probe" /\ SuccessStep(e)) => brk'[e].state = "closed"]_vars

\* C2: for a breaker in state probe, one call to failure(ms) at time t leaves
\* the breaker in state open with openedAt = t, so that can_probe() is false
\* at every time before t + cooldown.
C2_ProbeFailureReopens ==
    [][\A e \in Endpoints :
        (brk[e].state = "probe" /\ FailureStep(e)) =>
            /\ brk'[e].state = "open"
            /\ brk'[e].last_opened_at_ms = now
            /\ \A t \in LaterReadings :
                  t < now + conf[e].cooldown_ms => ~can_probe(brk'[e], conf[e], t)]_vars

C9_CooldownGating ==
    \A e \in Endpoints :
        /\ conf[e].cooldown_ms > 0
        /\ IF brk[e].state = "open"
           THEN /\ tripAt[e] >= 0
                /\ tripAt[e] <= now
                /\ \A t \in LaterReadings :
                      can_probe(brk[e], conf[e], t) <=> (t >= tripAt[e] + conf[e].cooldown_ms)
           ELSE \A t \in LaterReadings : ~can_probe(brk[e], conf[e], t)

\* An open breaker that took further reports after it tripped, past its cooldown.
C9_Witness ==
    /\ brk[UnitEndpoint].state = "open"
    /\ tripAt[UnitEndpoint] > 0
    /\ now >= tripAt[UnitEndpoint] + conf[UnitEndpoint].cooldown_ms
    /\ Len(hist[UnitEndpoint]) >= 3

\* C10: after k success()/failure() calls on a breaker of capacity N the
\* window holds exactly the min(k, N) most recently reported samples in
\* report order; its length never exceeds N.
C10_WindowIsRecentSamples ==
    \A e \in Endpoints :
        LET k == Len(hist[e])
            n == conf[e].sample_size
        IN  /\ Len(brk[e].outcomes) = Min(k, n)
            /\ Len(brk[e].outcomes) <= n
            /\ brk[e].outcomes = LastN(hist[e], Min(k, n))

\* More samples were reported than the window holds: the oldest were dropped.
C10_Witness ==
    /\ Len(hist[UnitEndpoint]) = conf[UnitEndpoint].sample_size + 2
    /\ hist[UnitEndpoint][1] # hist[UnitEndpoint][Len(hist[UnitEndpoint])]

----------------------------------------------------------------------------
(* Properties of the trip thresholds *)

\* No sample but the last one of the feed h met the failure-rate threshold.
NoEarlierTrip(h, cf) ==
    \A k \in 1..(Len(h) - 1) : ~FailRateTrips(SubSeq(h, 1, k), cf)

\* C6: a new breaker with max_fail_rate = 0.4 and capacity 10 (latency
\* threshold never reached) fed 4 failures and 6 successes, in any order
\* whose last sample is a failure, is open after the last sample.
C6_FourOfTenTrips ==
    [][\A e \in Endpoints :
        (/\ ReportStep(e)
         /\ Len(hist'[e]) = 10
         /\ Fails(hist'[e]) = 4
         /\ FailureStep(e)) => brk'[e].state = "open"]_vars

\* The tenth sample, a failure, is the first to reach 40 percent.
C6_Witness ==
    /\ Len(hist[UnitEndpoint]) = 10
    /\ Fails(hist[UnitEndpoint]) = 4
    /\ ~Ok(hist[UnitEndpoint][10])
    /\ NoEarlierTrip(hist[UnitEndpoint], conf[UnitEndpoint])
    /\ brk[UnitEndpoint].state = "open"
    /\ tripAt[UnitEndpoint] = now

\* C7: a new breaker with max_fail_rate = 0.4 and capacity 10 (latency
\* threshold never reached) fed 3 failures and 7 successes, in any order, is
\* closed after the tenth sample.
C7_ThreeOfTenStaysClosed ==
    [][\A e \in Endpoints :
        (/\ ReportStep(e)
         /\ Len(hist'[e]) = 10
         /\ Fails(hist'[e]) = 3) => brk'[e].state = "closed"]_vars

----------------------------------------------------------------------------
(* Properties of the guarded calls *)

\* The events chain c logged in this step.
IsPrefix(s, t) == Len(s) <= Len(t) /\ SubSeq(t, 1, Len(s)) = s

StepEvents(c) ==
    LET old == chains[c].trail
        new == chains'[c].trail
    IN  IF chains'[c] = chains[c] THEN <<>>
        ELSE IF IsPrefix(old, new) THEN SubSeq(new, Len(old) + 1, Len(new))
        ELSE new

\* The chains awaiting a call to e that was started with the breaker in probe.
ProbeCalls(e) ==
    {c \in Chains :
        /\ chains[c].pc = "calling"
        /\ chains[c].region = e
        /\ chains[c].trail[Len(chains[c].trail)] = <<"call", e, "probe">>}

\* C3: while a breaker is in state probe exactly one trial call to its
\* endpoint is allowed: across all concurrent chains no second protected call
\* to that endpoint is started before the first probe call's outcome has been
\* reported to the breaker.
C3_SingleProbeCall ==
    \A e \in Endpoints :
        brk[e].state = "probe" => Cardinality(ProbeCalls(e)) <= 1

\* C4: at the moment a protected call is started by get_price or
\* allergens_for the breaker of that endpoint is closed or probe, never open:
\* an open breaker past its cooldown is moved to probe before the call, and an
\* open breaker within its cooldown causes the step to be skipped.
C4_NoCallOnOpenBreaker ==
    [][\A c \in Chains : \A i \in DOMAIN StepEvents(c) :
        LET ev == StepEvents(c)[i]
            e == ev[2]
            elapsed == now - brk[e].last_opened_at_ms >= conf[e].cooldown_ms
        IN  /\ ev[1] = "call" =>
                /\ chains'[c].pc = "calling" /\ chains'[c].region = e
                /\ brk'[e].state \in {"closed", "probe"}
                /\ brk[e].state = "open" => (elapsed /\ brk'[e].state = "probe")
            /\ ev[1] = "skip" =>
                /\ brk[e].state = "open" /\ ~elapsed
                /\ brk'[e] = brk[e]
                /\ ~(chains'[c].pc = "calling" /\ chains'[c].region = e)]_vars

\* A run found its primary region's breaker open past its cooldown, moved it
\* to probe and started the call.
C4_Witness ==
    \E c \in Chains :
        /\ chains[c].pc = "calling"
        /\ chains[c].step = "primary"
        /\ chains[c].trail = <<<<"call", chains[c].region, "probe">>>>
        /\ brk[chains[c].region].state = "probe"
        /\ tripAt[chains[c].region] >= 0
        /\ now >= tripAt[chains[c].region] + conf[chains[c].region].cooldown_ms

----------------------------------------------------------------------------
(* Properties of the fallback chains *)

\* The number of events of a trail whose name is in `names`.
CountEvents(trail, names) ==
    Cardinality({i \in 1..Len(trail) : trail[i][1] \in names})

\* The events of a trail whose name is in `names`, in order.
RECURSIVE EventsNamed(_, _)
EventsNamed(trail, names) ==
    IF trail = <<>> THEN <<>>
    ELSE IF Head(trail)[1] \in names
         THEN <<Head(trail)>> \o EventsNamed(Tail(trail), names)
         ELSE EventsNamed(Tail(trail), names)

\* The runs that returned to their caller.
DonePrice == {c \in Chains : chains[c].kind = "price" /\ chains[c].pc = "done"}
DoneAllergen == {c \in Chains : chains[c].kind = "allergen" /\ chains[c].pc = "done"}

\* The value run c returned.
Result(c) == chains[c].result[1]

\* The run's first step was a call, and the call succeeded.
PrimarySucceeded(trail) ==
    /\ Len(trail) >= 2
    /\ trail[1][1] = "call"
    /\ trail[2][1] = "success"

\* C11: every get_price run returns a PriceResult and never propagates an
\* exception to its caller, for every combination of breaker states and of
\* each region call succeeding, raising an error or timing out.
C11_GetPriceTotal ==
    \A c \in Chains :
        chains[c].kind = "price" =>
            /\ chains[c].pc \in {"calling", "done"}
            /\ chains[c].pc = "done" =>
                /\ Len(chains[c].result) = 1
                /\ DOMAIN Result(c) = {"cents", "is_degraded", "reasons", "freshness"}
                /\ Result(c).cents \in Nat
                /\ Result(c).is_degraded \in BOOLEAN
                /\ Len(Result(c).reasons) = CountEvents(chains[c].trail,
                        {"skip", "failure", "cache", "baseline"})
                      + (IF EventsNamed(chains[c].trail, {"call"}) # <<>>
                            /\ ~PrimarySucceeded(chains[c].trail)
                            /\ chains[c].trail[Len(chains[c].trail)][1] = "success"
                         THEN 1 ELSE 0)

\* A run whose primary call raised and whose mirror call timed out, for a sku
\* the cache does not hold, returned the baseline estimate.
C11_Witness ==
    \E c \in DonePrice :
        /\ CountEvents(chains[c].trail, {"raised"}) = 2
        /\ \E i \in 1..Len(chains[c].trail) :
              chains[c].trail[i][1] = "failure" /\ chains[c].trail[i][3] = "timeout"
        /\ \E i \in 1..Len(chains[c].trail) :
              chains[c].trail[i][1] = "failure" /\ chains[c].trail[i][3] = "error"
        /\ Result(c).cents = 399
        /\ Result(c).reasons[3] = "used_baseline"

\* The runs that came to the terminal step: primary and mirror each skipped
\* or failed, the cache read finding no entry.
Exhausted == {c \in DonePrice : chains[c].trail[Len(chains[c].trail)] = <<"baseline">>}

\* C12: when every non-terminal step of a get_price run is skipped or fails
\* (primary and mirror each skipped-open or failed, cache read finding no
\* entry), the run returns the terminal step's value with is_degraded = true
\* and a reasons list containing exactly one tag per skipped or failed step
\* plus the terminal tag.
C12_OneTagPerStep ==
    \A c \in Exhausted :
        /\ Result(c).cents \in {250, 399}
        /\ Result(c).is_degraded
        /\ Len(Result(c).reasons) =
               CountEvents(chains[c].trail, {"skip", "failure", "cache_miss"}) + 1
        /\ Result(c).reasons[Len(Result(c).reasons)] = "used_baseline"

\* The tag get_price notes for a region step that was skipped or that failed.
RegionTag(ev) ==
    IF ev[1] = "skip" THEN "supplier_open"
    ELSE IF ev[2] = "us-east" THEN "supplier_error_us-east"
    ELSE "supplier_error_us-west"

\* C12, amended: when primary and mirror are each skipped-open or fail and
\* the cache holds no entry for the sku, get_price returns the baseline
\* estimate with is_degraded = true and exactly three reasons: one tag for
\* the primary, one for the mirror, then used_baseline; the cache miss adds
\* no tag.
C12_OneTagPerRegionStep ==
    \A c \in Exhausted :
        LET steps == EventsNamed(chains[c].trail, {"skip", "failure"})
        IN  /\ Result(c).cents = (IF chains[c].sku = "SKU_STEAK" THEN 399 ELSE 250)
            /\ Result(c).is_degraded
            /\ Result(c).freshness = <<>>
            /\ Len(steps) = 2
            /\ CountEvents(chains[c].trail, {"cache_miss"}) = 1
            /\ Result(c).reasons =
                   <<RegionTag(steps[1]), RegionTag(steps[2]), "used_baseline">>

\* A run that found both regions open within their cooldowns and no cache entry.
C12_Witness ==
    \E c \in Exhausted :
        /\ Result(c).reasons = <<"supplier_open", "supplier_open", "used_baseline">>
        /\ Result(c).cents = 399
        /\ chains[c].trail =
              <<<<"skip", chains[c].primary>>, <<"skip", Mirror(chains[c].primary)>>,
                <<"cache_miss">>, <<"baseline">>>>

\* C13: if the primary step of a chain succeeds, no later step's call is
\* started in that run: get_price never calls the mirror region, reads the
\* cache or computes the baseline, and allergens_for never calls the
\* estimator.
C13_FirstSuccessShortCircuits ==
    \A c \in Chains :
        PrimarySucceeded(chains[c].trail) =>
            /\ chains[c].pc = "done"
            /\ Len(chains[c].trail) = 2
            /\ CountEvents(chains[c].trail, {"call"}) = 1
            /\ CountEvents(chains[c].trail,
                   {"cache", "cache_miss", "baseline", "local", "llm_call", "llm_done"}) = 0
            /\ Result(c).reasons = <<>>

\* A get_price run and an allergens_for run whose primary calls succeeded.
C13_Witness ==
    /\ \E c \in DonePrice :
          /\ PrimarySucceeded(chains[c].trail)
          /\ chains[c].trail[1][2] = chains[c].primary
          /\ Result(c).cents = SupplierPrice(chains[c].sku)
    /\ \E c \in DoneAllergen :
          /\ PrimarySucceeded(chains[c].trail)
          /\ Result(c).items = CheckerItems

\* The steps a run attempted or skipped: each region step, the cache read,
\* the baseline, the local tags, the estimator.
StepsTouched(trail) ==
    CountEvents(trail, {"call", "skip", "cache", "cache_miss", "baseline", "local", "llm_call"})

\* C15: in every result of get_price and allergens_for, is_degraded is true
\* if and only if more than one step was attempted or skipped, or the step
\* that produced the value is not the primary; equivalently it is false
\* exactly when the primary step was attempted first and succeeded.
C15_DegradedIffNotPrimaryFirst ==
    \A c \in DonePrice \cup DoneAllergen :
        LET trail == chains[c].trail
        IN  /\ Result(c).is_degraded <=>
                  (StepsTouched(trail) > 1 \/ trail[Len(trail)][1] # "success")
            /\ ~Result(c).is_degraded <=> PrimarySucceeded(trail)

\* One run answered by its primary, not degraded, and one answered by the
\* mirror after the primary failed, degraded.
C15_Witness ==
    /\ \E c \in DonePrice :
          PrimarySucceeded(chains[c].trail) /\ ~Result(c).is_degraded
    /\ \E c \in DonePrice :
          /\ Result(c).is_degraded
          /\ Result(c).reasons = <<ErrorTag(chains[c].primary), "used_mirror">>
          /\ chains[c].trail[Len(chains[c].trail)][1] = "success"

\* The label freshness_label gives an entry written 30 minutes ago.
ThirtyMinutesOld == [hours |-> 0, mins |-> 30, text |-> "{mins}m old"]

\* The runs of the end-to-end scenario: preferred us-west, whose breaker was
\* open within its cooldown; us-east, closed, called and failed; the cache
\* holding 199 cents for the sku, written 30 minutes before the request.
EndToEndRuns ==
    {c \in DonePrice :
        /\ chains[c].primary = "us-west"
        /\ Len(chains[c].trail) = 5
        /\ chains[c].trail[1] = <<"skip", "us-west">>
        /\ chains[c].trail[2] = <<"call", "us-east", "closed">>
        /\ chains[c].trail[3][1] = "raised"
        /\ chains[c].trail[4][1] = "failure" /\ chains[c].trail[4][2] = "us-east"
        /\ chains[c].trail[5] = <<"cache">>
        /\ price_cache[chains[c].sku] # <<>>
        /\ price_cache[chains[c].sku][1].cents = 199
        /\ (now_ms_wall - price_cache[chains[c].sku][1].ts) \div 60000 = 30}

\* C14: with the us-west breaker open within its cooldown, the us-east
\* breaker closed and the cache holding price 199 for the sku written 30
\* minutes ago, get_price(sku, preferred us-west) in which the us-east call
\* fails returns value 199, is_degraded true, reasons exactly
\* ["supplier_open", "supplier_error_mirror", "used_cache"] and freshness
\* "30m old".
C14_EndToEndMirrorTag ==
    \A c \in EndToEndRuns :
        Result(c) = [cents |-> 199, is_degraded |-> TRUE,
                     reasons |-> <<"supplier_open", "supplier_error_mirror", "used_cache">>,
                     freshness |-> <<ThirtyMinutesOld>>]

\* C14, amended: in the same scenario get_price returns value 199,
\* is_degraded true, reasons exactly ["supplier_open",
\* "supplier_error_us-east", "used_cache"] and freshness "30m old": the
\* failure tag names the region that was called.
C14_EndToEndRegionTag ==
    \A c \in EndToEndRuns :
        Result(c) = [cents |-> 199, is_degraded |-> TRUE,
                     reasons |-> <<"supplier_open", "supplier_error_us-east", "used_cache">>,
                     freshness |-> <<ThirtyMinutesOld>>]

\* A run of the scenario whose us-east call timed out, us-west having been
\* tripped by an earlier run.
C14_Witness ==
    \E c \in EndToEndRuns :
        /\ chains[c].trail[4] = <<"failure", "us-east", "timeout">>
        /\ brk["us-west"].state = "open"
        /\ now < tripAt["us-west"] + conf["us-west"].cooldown_ms
        /\ Result(c).cents = 199

\* The calls of this step that with_timeout ended for chain c.
CallEnded(c) == chains[c].pc = "calling" /\ chains'[c] # chains[c]

\* C16: with_timeout never raises past its own boundary: a deadline miss and
\* any exception of the wrapped call are both returned to the caller as
\* tagged failure results, not raised.
C16_WithTimeoutNeverRaises ==
    \A c \in Chains : CountEvents(chains[c].trail, {"raised"}) = 0

\* C16, amended: with_timeout raises to its caller: a deadline miss is raised
\* as TimeoutError("timeout_<label>") and an exception of the wrapped call is
\* raised again with its message; the calling attempt catches both, reports
\* a failure to the breaker and goes on with the chain.
C16_WithTimeoutRaisesToAttempt ==
    [][\A c \in Chains :
        CallEnded(c) =>
            LET e == chains[c].region
                late == now - chains[c].start >= TimeoutMs(e)
                first == StepEvents(c)[1]
            IN  /\ first[1] \in {"raised", "success"}
                /\ late => first = <<"raised", e, "TimeoutError", <<"timeout_", Label(e)>>>>
                /\ first[1] = "raised" =>
                      /\ first[2] = e
                      /\ first[3] = "TimeoutError" <=> late
                      /\ first[3] = "Exception" <=> first[4] \in ErrorMessages(e)
                      /\ StepEvents(c)[2][1] = "failure" /\ StepEvents(c)[2][2] = e
                      /\ FailureStep(e)
                      /\ chains'[c].pc \in {"calling", "done"}]_vars

\* A run whose us-west call raised 429_throttle and whose us-east call timed
\* out: both exceptions reached the attempt and were caught there.
C16_Witness ==
    \E c \in DonePrice :
        /\ chains[c].trail[2] = <<"raised", "us-west", "Exception", <<"429_throttle">>>>
        /\ chains[c].trail[5] =
              <<"raised", "us-east", "TimeoutError", <<"timeout_", "supplier_us-east">>>>
        /\ Result(c).reasons[1] = "supplier_error_us-west"
        /\ Result(c).reasons[2] = "supplier_error_us-east"

\* The allergens_for runs whose primary step failed or was skipped.
AllergenFallbackRuns == {c \in DoneAllergen : ~PrimarySucceeded(chains[c].trail)}

\* C17: when the primary allergen step fails or is skipped, the items
\* returned by allergens_for are the set union of the recipe's local tags
\* (lower-cased) and the estimator's items: every local tag is in the result
\* and no item outside the two sets is.
C17_ItemsAreUnion ==
    \A c \in AllergenFallbackRuns :
        LET tags == chains[c].tags
            items == Result(c).items
            lowered == [i \in 1..Len(tags) |->
                           IF tags[i] = "Sesame" THEN "sesame"
                           ELSE IF tags[i] = "DAIRY" THEN "dairy" ELSE tags[i]]
        IN  /\ \A i \in 1..Len(tags) : lowered[i] \in items
            /\ \A x \in {"gluten", "dairy", "nuts", "soy"} : x \in items
            /\ \A x \in items :
                  \/ x \in {"gluten", "dairy", "nuts", "soy"}
                  \/ \E i \in 1..Len(tags) : x = lowered[i]
            /\ Result(c).is_degraded

\* A recipe tagged Sesame and DAIRY, its checker call failing: sesame is not
\* among the estimator's items and is in the result.
C17_Witness ==
    \E c \in AllergenFallbackRuns :
        /\ chains[c].tags = <<"Sesame", "DAIRY">>
        /\ Result(c).items = {"sesame", "dairy", "gluten", "nuts", "soy"}
        /\ chains[c].trail[Len(chains[c].trail)] = <<"llm_done">>

\* The reasons run c has noted so far, or returned.
RunReasons(ch) == IF ch.pc = "done" THEN ch.result[1].reasons ELSE ch.reasons

\* The number of '<step>_open' tags among reasons.
OpenTags(reasons, kind) ==
    Cardinality({i \in 1..Len(reasons) :
        reasons[i] = (IF kind = "price" THEN "supplier_open" ELSE "allergen_open")})

\* C19: when a step's breaker is open and its cooldown has not elapsed, the
\* step is skipped: no protected call is started, exactly one '<step>_open'
\* tag is appended to reasons, and the breaker's window, state and openedAt
\* are left unchanged.
C19_OpenStepIsSkipped ==
    [][\A c \in Chains :
        LET events == StepEvents(c)
            before == IF chains[c].pc \in {"calling", "llm"} THEN chains[c].reasons
                      ELSE <<>>
            after == RunReasons(chains'[c])
            within(e) == /\ brk[e].state = "open"
                         /\ now - brk[e].last_opened_at_ms < conf[e].cooldown_ms
        IN  /\ \A i \in 1..Len(events) :
                  /\ events[i][1] = "skip" =>
                        /\ within(events[i][2])
                        /\ brk'[events[i][2]] = brk[events[i][2]]
                        /\ hist'[events[i][2]] = hist[events[i][2]]
                        /\ \A j \in 1..Len(events) :
                              events[j][1] = "call" => events[j][2] # events[i][2]
                  /\ events[i][1] = "call" => ~within(events[i][2])
            /\ chains'[c] # chains[c] =>
                  OpenTags(after, chains'[c].kind) - OpenTags(before, chains'[c].kind)
                     = CountEvents(events, {"skip"})
            /\ (chains[c].pc \in {"idle", "done"} /\ chains'[c] # chains[c]) =>
                  LET e == IF chains'[c].kind = "price" THEN chains'[c].primary
                           ELSE "allergen"
                  IN  within(e) <=> events[1] = <<"skip", e>>]_vars

\* A run skipped its primary region, open within its cooldown, noted
\* supplier_open once and awaits the call of the mirror.
C19_Witness ==
    \E c \in Chains :
        /\ chains[c].pc = "calling"
        /\ chains[c].trail = <<<<"skip", chains[c].primary>>,
                                <<"call", Mirror(chains[c].primary), "closed">>>>
        /\ chains[c].reasons = <<"supplier_open">>
        /\ brk[chains[c].primary].state = "open"
        /\ now < tripAt[chains[c].primary] + conf[chains[c].primary].cooldown_ms
        /\ Len(hist[chains[c].primary]) = 1

----------------------------------------------------------------------------
(* Properties of the breaker's data *)

\* C18: in every reachable state of a breaker, the state is open if and only
\* if openedAt has been set (the breaker has tripped) and no enter_probe
\* transition has happened since openedAt was last set.
C18_OpenIffStampedAndNotProbed ==
    \A e \in Endpoints :
        brk[e].state = "open" <=> (tripAt[e] >= 0 /\ ~probed[e])

\* A breaker that tripped, was moved to probe after its cooldown and closed
\* by the probe's success: openedAt is set, and superseded.
C18_Witness ==
    /\ brk[UnitEndpoint].state = "closed"
    /\ tripAt[UnitEndpoint] >= 0
    /\ probed[UnitEndpoint]
    /\ brk[UnitEndpoint].last_opened_at_ms = tripAt[UnitEndpoint]
    /\ now >= tripAt[UnitEndpoint] + conf[UnitEndpoint].cooldown_ms

\* ceil(0.95 * n) - 1, the nearest-rank index (from 0) among n sorted values.
NearestRankIndex(n) == ((95 * n + 99) \div 100) - 1

\* The durations of the window of e, in window order.
Window(e) == Durations(brk[e].outcomes)

\* C20: for every non-empty list of durations p95 returns the nearest-rank
\* percentile, the element at index ceil(0.95 * len) - 1 of the durations
\* sorted ascending; for the empty list it returns 0.
C20_P95IsNearestRank ==
    \A e \in Endpoints :
        IF Window(e) = <<>> THEN p95(Window(e)) = 0
        ELSE p95(Window(e)) = sorted(Window(e))[NearestRankIndex(Len(Window(e))) + 1]

\* C20, amended: for every non-empty list of durations p95 returns the
\* element of rank floor(0.95 * (len - 1)) (from 0) in ascending order: a
\* value of the list with at most that many values below it and more than
\* that many values at or below it; for the empty list it returns 0.
C20_P95IsFloorRank ==
    \A e \in Endpoints :
        LET D == Window(e)
            n == Len(D)
            k == (95 * (n - 1)) \div 100
            v == p95(D)
        IN  IF n = 0 THEN v = 0
            ELSE /\ \E i \in 1..n : D[i] = v
                 /\ Cardinality({i \in 1..n : D[i] < v}) <= k
                 /\ Cardinality({i \in 1..n : D[i] <= v}) > k

\* A window of two different durations: p95 is the smaller one.
C20_Witness ==
    /\ Len(Window(UnitEndpoint)) = 2
    /\ Window(UnitEndpoint)[1] > Window(UnitEndpoint)[2]
    /\ p95(Window(UnitEndpoint)) = Window(UnitEndpoint)[2]

\* C21: a newly constructed breaker (empty window, state closed) whose
\* max_fail_rate and max_p95_ms are both > 0 does not trip to open on its
\* first reported sample.
C21_FirstSampleDoesNotTrip ==
    [][\A e \in Endpoints :
        (/\ brk[e] = NewBreaker
         /\ hist[e] = <<>>
         /\ conf[e].max_fail_pct > 0
         /\ conf[e].max_p95_ms > 0
         /\ ReportStep(e)) => brk'[e].state # "open"]_vars


----------------------------------------------------------------------------
(* Properties of the failure tags *)

\* The failures of the guarded steps seen so far: the endpoint, the kind of
\* the error and the tag the run appended to reasons for it.
FailureTags ==
    UNION {LET ch == chains[c]
               steps == EventsNamed(ch.trail, {"skip", "failure"})
           IN  {<<steps[i][2], steps[i][3], RunReasons(ch)[i]>> :
                    i \in {j \in DOMAIN steps : steps[j][1] = "failure"}} :
           c \in Chains}

\* C22: for every breaker-guarded step that fails, the tag appended to
\* reasons identifies the step and the error kind: a timed-out attempt and an
\* attempt whose call raised an error produce different tags for the same
\* step, in get_price as in allergens_for.
C22_TagTellsTimeoutFromError ==
    \A x, y \in FailureTags :
        (x[1] = y[1] /\ x[2] # y[2]) => x[3] # y[3]

\* C22, amended: the tag of a failed step identifies the step; only
\* allergens_for tells a timeout (allergen_timeout) from an error
\* (allergen_invalid_json), get_price appends supplier_error_<region> for a
\* timeout and for an error alike.
C22_OnlyAllergenTagTellsKind ==
    \A x \in FailureTags :
        x[3] = (IF x[1] = "allergen"
                THEN (IF x[2] = "timeout" THEN "allergen_timeout"
                      ELSE "allergen_invalid_json")
                ELSE RegionTag(<<"failure", x[1]>>))

\* The allergen checker timed out in one run, tagged allergen_timeout, and a
\* region call timed out in another, tagged supplier_error_<region>.
C22_Witness ==
    /\ <<"allergen", "timeout", "allergen_timeout">> \in FailureTags
    /\ \E e \in Regions :
          <<e, "timeout", RegionTag(<<"failure", e>>)>> \in FailureTags

\* The tag of the tier that produced the value of a finished get_price run,
\* none when the value came from the primary region.
TierTag(ch) ==
    LET last == ch.trail[Len(ch.trail)]
    IN  IF last[1] = "success"
        THEN (IF last[2] = ch.primary THEN <<>> ELSE <<"used_mirror">>)
        ELSE IF last[1] = "cache" THEN <<"used_cache">>
        ELSE <<"used_baseline">>

\* C23: in every get_price result, reasons lists tags in attempt order: one
\* tag for each region step that was skipped or failed, primary before
\* mirror, followed, when the value did not come from the primary, by exactly
\* one tag naming the tier that produced the value (used_mirror, used_cache
\* or used_baseline) as the last element.
C23_ReasonsInAttemptOrder ==
    \A c \in DonePrice :
        LET ch == chains[c]
            steps == EventsNamed(ch.trail, {"skip", "failure"})
            order == <<ch.primary, Mirror(ch.primary)>>
        IN  /\ Len(steps) <= 2
            /\ \A i \in DOMAIN steps : steps[i][2] = order[i]
            /\ Result(c).reasons =
                   [i \in DOMAIN steps |-> RegionTag(steps[i])] \o TierTag(ch)

\* A run preferring us-west whose primary call failed and whose mirror call
\* succeeded.
C23_Witness ==
    \E c \in DonePrice :
        /\ chains[c].primary = "us-west"
        /\ Result(c).reasons = <<"supplier_error_us-west", "used_mirror">>
        /\ Result(c).cents = SupplierPrice(chains[c].sku)

\* The tier an event of a get_price run belongs to: 1 primary region,
\* 2 mirror region, 3 cache, 4 baseline.
Tier(ch, ev) ==
    IF ev[1] \in {"skip", "call"} THEN (IF ev[2] = ch.primary THEN 1 ELSE 2)
    ELSE IF ev[1] \in {"cache", "cache_miss"} THEN 3
    ELSE 4

\* C24: in get_price the tiers are tried in the fixed order primary region,
\* mirror region, cache, baseline: when both region steps were skipped or
\* failed, the run returns the cached price (tag used_cache) if the cache
\* holds an entry for the sku at that moment, whatever the entry's age, and
\* the baseline estimate (tag used_baseline) only if the cache holds none.
C24_TiersInOrderCacheAnyAge ==
    [][\A c \in Chains :
        LET ch == chains'[c]
            tiers == EventsNamed(ch.trail, {"skip", "call", "cache", "cache_miss", "baseline"})
            last == ch.trail[Len(ch.trail)]
            cached == price_cache[ch.sku]
            reasons == ch.result[1].reasons
        IN  (ch.kind = "price" /\ StepEvents(c) # <<>>) =>
              /\ \A i \in DOMAIN tiers : Tier(ch, tiers[i]) = i
              /\ (ch.pc = "done" /\ last[1] # "success") =>
                    /\ CountEvents(ch.trail, {"skip", "failure"}) = 2
                    /\ reasons[Len(reasons)] \in {"used_cache", "used_baseline"}
                    /\ IF cached # <<>>
                       THEN /\ last = <<"cache">>
                            /\ ch.result[1].cents = cached[1].cents
                            /\ ch.result[1].freshness = <<freshness_label(cached[1].ts)>>
                            /\ reasons[Len(reasons)] = "used_cache"
                       ELSE /\ last = <<"baseline">>
                            /\ ch.result[1].cents = baseline_estimate_cents(ch.sku)
                            /\ reasons[Len(reasons)] = "used_baseline"]_vars

\* A run whose two regions failed returned the cached price of an entry that
\* was twelve hours old.
C24_Witness ==
    \E c \in DonePrice :
        /\ chains[c].trail[Len(chains[c].trail)] = <<"cache">>
        /\ CountEvents(chains[c].trail, {"failure"}) = 2
        /\ Result(c).cents = 199
        /\ Result(c).freshness[1].hours = 12
        /\ Result(c).reasons[3] = "used_cache"

\* C25: within one get_price run the steps are strictly sequential: the
\* mirror step (its call or its skip) starts only after the primary step has
\* been skipped or has reported its failure to its breaker, and the cache
\* read happens only after the mirror step has been skipped or has failed.
C25_StepsStrictlySequential ==
    [][\A c \in Chains :
        LET ch == chains'[c]
            evs == StepEvents(c)
            off == Len(ch.trail) - Len(evs)
            Ended(pos, e) ==
                /\ pos > 1
                /\ \/ ch.trail[pos - 1] = <<"skip", e>>
                   \/ /\ ch.trail[pos - 1][1] = "failure"
                      /\ ch.trail[pos - 1][2] = e
                      /\ pos - 1 > off =>
                            hist'[e] = Append(hist[e], <<SupplierFailureMs, FALSE>>)
        IN  ch.kind = "price" =>
              \A i \in DOMAIN evs :
                /\ (evs[i][1] \in {"call", "skip"} /\ evs[i][2] = ch.primary) =>
                       off + i = 1
                /\ (evs[i][1] \in {"call", "skip"} /\ evs[i][2] = Mirror(ch.primary)) =>
                       Ended(off + i, ch.primary)
                /\ evs[i][1] \in {"cache", "cache_miss"} =>
                       Ended(off + i, Mirror(ch.primary))]_vars

\* A run whose primary call failed, whose mirror call was started then and
\* failed too, and which read the cache after that.
C25_Witness ==
    \E c \in DonePrice :
        /\ Len(chains[c].trail) = 8
        /\ [i \in 1..8 |-> chains[c].trail[i][1]] =
              <<"call", "raised", "failure", "call", "raised", "failure",
                "cache_miss", "baseline">>
        /\ chains[c].trail[1][2] = chains[c].primary
        /\ chains[c].trail[4][2] = Mirror(chains[c].primary)
        /\ \A e \in Regions : hist[e] # <<>>

\* The protected calls a run started to endpoint e.
CallsTo(trail, e) ==
    Cardinality({i \in 1..Len(trail) : trail[i][1] = "call" /\ trail[i][2] = e})

\* C29: no step is retried in place: in one get_price run each region's
\* protected call is started at most once (at most two protected calls in
\* total), and in one allergens_for run the allergen checker is called at
\* most once.
C29_NoRetryInPlace ==
    \A c \in Chains :
        LET trail == chains[c].trail
        IN  /\ \A e \in Endpoints : CallsTo(trail, e) <= 1
            /\ chains[c].kind = "price" =>
                  /\ CountEvents(trail, {"call"}) <= 2
                  /\ CallsTo(trail, "allergen") = 0
            /\ chains[c].kind = "allergen" =>
                  /\ CountEvents(trail, {"call"}) <= 1
                  /\ \A e \in Regions : CallsTo(trail, e) = 0

\* A get_price run whose two region calls failed, each started once, and an
\* allergens_for run whose one checker call failed, went on to their fallbacks.
C29_Witness ==
    /\ \E c \in DonePrice :
          /\ CountEvents(chains[c].trail, {"failure"}) = 2
          /\ \A e \in Regions : CallsTo(chains[c].trail, e) = 1
    /\ \E c \in Chains :
          /\ chains[c].kind = "allergen"
          /\ chains[c].pc \in {"llm", "done"}
          /\ CountEvents(chains[c].trail, {"failure"}) = 1
          /\ CallsTo(chains[c].trail, "allergen") = 1

----------------------------------------------------------------------------
(* Properties of concurrent chains *)

\* The outcomes the chains logged for endpoint e in this step, as <<c, i>>.
StepReports(e) ==
    UNION {{<<c, i>> : i \in {j \in DOMAIN StepEvents(c) :
                                /\ StepEvents(c)[j][1] \in {"success", "failure"}
                                /\ StepEvents(c)[j][2] = e}} :
           c \in Chains}

\* C26: when several concurrent chains report outcomes to the same breaker,
\* each success()/failure()/enter_probe() takes effect atomically: every
\* report a chain makes is one sample appended to the breaker's history, the
\* breaker goes from its current state to the state that one operation
\* yields, the chains still awaiting are untouched, no reported sample is
\* lost, and the window equals the last samples of the serial order of the
\* reports.
C26_ReportsAreSerial ==
    [][/\ Cardinality({c \in Chains : chains'[c] # chains[c]}) <= 1
       /\ \A e \in Endpoints :
            LET b == brk[e]
                n == conf[e].sample_size
                h == hist'[e]
            IN  /\ Len(h) = Len(hist[e]) + Cardinality(StepReports(e))
                /\ IsPrefix(hist[e], h)
                /\ brk'[e].outcomes = LastN(h, Min(Len(h), n))
                /\ IF ReportStep(e)
                   THEN brk'[e] = (IF Ok(h[Len(h)])
                                   THEN success(b, conf[e], Ms(h[Len(h)]), now)
                                   ELSE failure(b, conf[e], Ms(h[Len(h)]), now))
                   ELSE brk'[e] \in {b, enter_probe(b, conf[e], now)}]_vars

\* Two runs called the same region at the same time, both calls failed, and
\* the region's breaker holds both samples.
C26_Witness ==
    \E e \in Regions : \E c1, c2 \in Chains :
        /\ c1 # c2
        /\ \A c \in {c1, c2} :
              /\ Len(chains[c].trail) >= 3
              /\ chains[c].trail[1] = <<"call", e, "closed">>
              /\ chains[c].trail[3][1] = "failure"
              /\ chains[c].trail[3][2] = e
        /\ Len(hist[e]) = 2
        /\ brk[e].outcomes = <<<<SupplierFailureMs, FALSE>>, <<SupplierFailureMs, FALSE>>>>

\* The calls that end in this step at or after their deadline.
EndsPastDeadline(c) ==
    /\ CallEnded(c)
    /\ now - chains[c].start >= TimeoutMs(chains[c].region)

\* C27: when a protected call's deadline fires before the call completes, the
\* attempt ends with the error timeout_<label> and is reported to the breaker
\* as a failure, and whatever the abandoned call completes with afterwards
\* changes neither the breaker's window and state beyond that failure, nor
\* the cache, nor the result of the chain.
C27_LateCompletionIsDropped ==
    [][\A c \in Chains :
        EndsPastDeadline(c) =>
            LET e == chains[c].region
                evs == StepEvents(c)
                ms == IF e \in Regions THEN SupplierFailureMs ELSE AllergenFailureMs
            IN  /\ evs[1] = <<"raised", e, "TimeoutError", <<"timeout_", Label(e)>>>>
                /\ evs[2] = <<"failure", e, "timeout">>
                /\ hist'[e] = Append(hist[e], <<ms, FALSE>>)
                /\ brk'[e] = failure(brk[e], conf[e], ms, now)
                /\ price_cache' = price_cache
                /\ CountEvents(evs, {"success"}) = 0
                /\ chains'[c].pc = "done" =>
                      /\ chains'[c].trail[Len(chains'[c].trail)][1] \in {"cache", "baseline"}
                      /\ chains'[c].result[1].cents
                             \in {baseline_estimate_cents(chains[c].sku)}
                                 \cup {price_cache[chains[c].sku][i].cents :
                                          i \in DOMAIN price_cache[chains[c].sku]}]_vars

\* A region call reached its deadline: the run went on to its next tier, the
\* region's breaker holds the failure, the cache holds no price from the call.
C27_Witness ==
    \E c \in Chains : \E i \in DOMAIN chains[c].trail :
        /\ chains[c].kind = "price"
        /\ chains[c].sku = "SKU_STEAK"
        /\ chains[c].trail[i][1] = "raised"
        /\ chains[c].trail[i][3] = "TimeoutError"
        /\ chains[c].trail[i][4] = <<"timeout_", Label(chains[c].trail[i][2])>>
        /\ hist[chains[c].trail[i][2]] = <<<<SupplierFailureMs, FALSE>>>>
        /\ price_cache["SKU_STEAK"] = <<>>

----------------------------------------------------------------------------
(* Termination of the runs *)

\* C28: every get_price and allergens_for run eventually returns a result
\* even if an awaited external call (supplier region call, allergen checker
\* call or estimator call) never completes, because every step's wait ends at
\* its per-step deadline.
C28_EveryRunReturns ==
    \A c \in Chains :
        (chains[c].pc \in {"calling", "llm"}) ~> (chains[c].pc = "done")

\* The part of C28 that holds: a wait under with_timeout ends.
ProtectedCallEnds ==
    \A c \in Chains : (chains[c].pc = "calling") ~> (chains[c].pc # "calling")

----------------------------------------------------------------------------
(* Properties of the emitted metrics *)

\* CircuitBreaker(..., name): the names the clients give their breakers.
BreakerName(e) ==
    IF e = "us-east" THEN "supplier_us-east"
    ELSE IF e = "us-west" THEN "supplier_us-west"
    ELSE "allergen"

\* What the breaker of e emits in a step of a unit run: a step that appends a
\* sample is success() or failure(), a step that leaves the clock alone and
\* appends none is enter_probe(), the clock's step calls nothing.
Emitted(e) ==
    IF SuccessStep(e)
    THEN success_emits(brk[e], conf[e], Ms(hist'[e][Len(hist'[e])]), BreakerName(e))
    ELSE IF FailureStep(e)
    THEN failure_emits(brk[e], conf[e], Ms(hist'[e][Len(hist'[e])]), BreakerName(e))
    ELSE IF now' = now
    THEN enter_probe_emits(brk[e], conf[e], now, BreakerName(e))
    ELSE <<>>

IsStateChange(ev) == ev.event = "breaker_state_change"
IsRolling(ev) == ev.event = "breaker_rolling"

\* C30: every change of a breaker's state (closed to open, probe to open,
\* open to probe, probe to closed) emits exactly one breaker_state_change
\* event carrying the breaker's name and the new state, no such event is
\* emitted when the state does not change, and every success()/failure()
\* emits one rolling-window snapshot event.
C30_OneEventPerStateChange ==
    [][\A e \in Endpoints :
        LET changes == SelectSeq(Emitted(e), IsStateChange)
            rolling == SelectSeq(Emitted(e), IsRolling)
            path == <<brk[e].state>> \o [i \in DOMAIN changes |-> changes[i].state]
        IN  /\ \A i \in DOMAIN changes :
                  /\ changes[i].name = BreakerName(e)
                  /\ path[i + 1] # path[i]
                  /\ <<path[i], path[i + 1]>> \in
                        {<<"closed", "open">>, <<"probe", "open">>,
                         <<"open", "probe">>, <<"probe", "closed">>}
            /\ path[Len(path)] = brk'[e].state
            /\ brk'[e].state = brk[e].state => changes = <<>>
            /\ Len(rolling) = (IF ReportStep(e) THEN 1 ELSE 0)
            /\ \A i \in DOMAIN rolling :
                  /\ rolling[i].name = BreakerName(e)
                  /\ rolling[i].size = Len(brk'[e].outcomes)]_vars

\* A breaker that tripped on its reports and was moved to probe after its
\* cooldown: a change to open and a change to probe were emitted.
C30_Witness ==
    /\ brk[UnitEndpoint].state = "probe"
    /\ tripAt[UnitEndpoint] >= 0
    /\ Len(hist[UnitEndpoint]) >= 2
    /\ now >= tripAt[UnitEndpoint] + conf[UnitEndpoint].cooldown_ms

----------------------------------------------------------------------------
(* Properties of the state machine's transitions *)

\* The changes of state a breaker can make in one operation.
Transitions ==
    {<<"closed", "open">>, <<"open", "probe">>,
     <<"probe", "closed">>, <<"probe", "open">>}

\* C31: a breaker never goes from open to closed directly: success() or
\* failure() called while the state is open appends the sample to the window
\* but leaves the state open and openedAt unchanged; the only way out of open
\* is enter_probe() after the cooldown, so the only transitions are
\* closed->open, open->probe, probe->closed and probe->open.
C31_OpenLeavesOnlyByProbe ==
    [][\A e \in Endpoints :
        /\ brk'[e].state # brk[e].state =>
               <<brk[e].state, brk'[e].state>> \in Transitions
        /\ (brk[e].state = "open" /\ ReportStep(e)) =>
               /\ brk'[e].state = "open"
               /\ brk'[e].last_opened_at_ms = brk[e].last_opened_at_ms
               /\ brk'[e].outcomes[Len(brk'[e].outcomes)] = hist'[e][Len(hist'[e])]
               /\ Len(brk'[e].outcomes) =
                      Min(Len(brk[e].outcomes) + 1, conf[e].sample_size)
        /\ (brk[e].state = "open" /\ brk'[e].state # "open") =>
               /\ brk'[e].state = "probe"
               /\ ~ReportStep(e)
               /\ now - brk[e].last_opened_at_ms >= conf[e].cooldown_ms
               /\ brk'[e].outcomes = brk[e].outcomes]_vars

\* A breaker tripped by its first report took a success within its cooldown
\* and is still open, its window holding both samples.
C31_Witness ==
    /\ now = 0
    /\ brk[UnitEndpoint].state = "open"
    /\ hist[UnitEndpoint] = <<<<100, FALSE>>, <<100, TRUE>>>>
    /\ brk[UnitEndpoint].outcomes = hist[UnitEndpoint]
    /\ brk[UnitEndpoint].last_opened_at_ms = 0

----------------------------------------------------------------------------
(* Properties of the outcome reports *)

\* The samples appended in this step to the history of e.
NewSamples(e) == SubSeq(hist'[e], Len(hist[e]) + 1, Len(hist'[e]))

\* The chains whose protected call ends in this step.
EndingCalls == {c \in Chains : CallEnded(c)}

\* C33: every protected call that a chain starts reports exactly one outcome
\* to its breaker, success(duration) if it returned a value before the
\* deadline and failure otherwise, never both and never none; a skipped step
\* and the cache and baseline steps report nothing to any breaker.
C33_OneOutcomePerCall ==
    [][/\ \A c \in EndingCalls :
            LET e == chains[c].region
                elapsed == now - chains[c].start
                first == StepEvents(c)[1]
                ms == IF e \in Regions THEN SupplierFailureMs ELSE AllergenFailureMs
            IN  /\ first[1] \in {"success", "raised"}
                /\ first[1] = "success" => elapsed < TimeoutMs(e)
                /\ NewSamples(e) = (IF first[1] = "success"
                                    THEN <<<<elapsed, TRUE>>>> ELSE <<<<ms, FALSE>>>>)
                /\ brk'[e].outcomes[Len(brk'[e].outcomes)] = NewSamples(e)[1]
                /\ \A x \in Endpoints \ {e} : NewSamples(x) = <<>>
       /\ EndingCalls = {} =>
            \A e \in Endpoints : NewSamples(e) = <<>> /\ brk'[e].outcomes = brk[e].outcomes
       /\ \A e \in Endpoints : IsPrefix(hist[e], hist'[e])]_vars

\* A get_price run whose primary call failed and whose mirror call returned
\* reported one failure and one success, each to its region's breaker; an
\* allergens_for run's call returned and reported its success.
C33_Witness ==
    /\ \E c \in DonePrice :
          /\ [i \in DOMAIN chains[c].trail |-> chains[c].trail[i][1]] =
                <<"call", "raised", "failure", "call", "success">>
          /\ hist[chains[c].primary] = <<<<SupplierFailureMs, FALSE>>>>
          /\ Len(hist[Mirror(chains[c].primary)]) = 1
          /\ Ok(hist[Mirror(chains[c].primary)][1])
    /\ \E c \in DoneAllergen : PrimarySucceeded(chains[c].trail)
    /\ Len(hist["allergen"]) = 1
    /\ Ok(hist["allergen"][1])

----------------------------------------------------------------------------
(* Frame of enter_probe *)

\* C35: enter_probe() changes the breaker only when the state is open and
\* the cooldown has elapsed, in which case the state becomes probe with
\* window and openedAt unchanged; called in state closed, in state probe, or
\* in state open before the cooldown has elapsed, it changes nothing and
\* emits no event.
C35_EnterProbeFrame ==
    \A e \in Endpoints : \A t \in LaterReadings :
        LET b == brk[e]
            after == enter_probe(b, conf[e], t)
            emitted == enter_probe_emits(b, conf[e], t, BreakerName(e))
        IN  IF b.state = "open" /\ t - b.last_opened_at_ms >= conf[e].cooldown_ms
            THEN /\ after.state = "probe"
                 /\ after.outcomes = b.outcomes
                 /\ after.last_opened_at_ms = b.last_opened_at_ms
                 /\ emitted = <<StateChange(BreakerName(e), "probe")>>
            ELSE /\ after = b
                 /\ emitted = <<>>

\* enter_probe() moved a breaker to probe past its cooldown: the window and
\* the time of the trip are as the trip left them.
C35_Witness ==
    /\ brk[UnitEndpoint].state = "probe"
    /\ probed[UnitEndpoint]
    /\ brk[UnitEndpoint].last_opened_at_ms = tripAt[UnitEndpoint]
    /\ now - tripAt[UnitEndpoint] >= conf[UnitEndpoint].cooldown_ms
    /\ brk[UnitEndpoint].outcomes = hist[UnitEndpoint]
    /\ hist[UnitEndpoint] # <<>>

----------------------------------------------------------------------------
(* Properties of the price cache *)

\* The get_price runs whose region call succeeds in this step.
Succeeding ==
    {c \in Chains : chains'[c].kind = "price" /\ CountEvents(StepEvents(c), {"success"}) = 1}

\* The get_price runs that return in this step without a region's value.
FallingBack ==
    {c \in Chains :
        /\ chains'[c].kind = "price"
        /\ chains'[c].pc = "done"
        /\ StepEvents(c) # <<>>
        /\ chains'[c].trail[Len(chains'[c].trail)][1] # "success"}

\* C36: after a region call for a sku succeeds, the cache entry of that sku
\* holds the returned price and the time of the write; entries change by such
\* writes only and are never removed, so every later get_price run for that
\* sku in which both region steps are skipped or fail returns the price of
\* the most recently completed successful call with tag used_cache, never the
\* baseline.
C36_CacheKeepsLastSuccess ==
    [][/\ \A c \in Succeeding :
            /\ price_cache'[chains'[c].sku] =
                   <<[cents |-> SupplierPrice(chains'[c].sku), ts |-> now_ms_wall]>>
            /\ chains'[c].result[1].cents = SupplierPrice(chains'[c].sku)
       /\ \A sku \in Skus :
            /\ price_cache[sku] # <<>> => price_cache'[sku] # <<>>
            /\ price_cache'[sku] # price_cache[sku] =>
                   \E c \in Succeeding : chains'[c].sku = sku
       /\ \A c \in FallingBack :
            LET res == chains'[c].result[1]
                cached == price_cache[chains'[c].sku]
            IN  cached # <<>> =>
                   /\ res.cents = cached[1].cents
                   /\ res.reasons[Len(res.reasons)] = "used_cache"
                   /\ chains'[c].trail[Len(chains'[c].trail)] = <<"cache">>]_vars

\* A sku the cache did not hold was priced by a region call; a later run for
\* it, both of its region calls failing, returned that price from the cache.
C36_Witness ==
    \E c \in DonePrice :
        /\ chains[c].sku = "SKU_STEAK"
        /\ CountEvents(chains[c].trail, {"failure"}) = 2
        /\ Result(c).cents = SupplierPrice("SKU_STEAK")
        /\ Result(c).reasons[3] = "used_cache"
        /\ price_cache["SKU_STEAK"][1].ts >= WallStart

----------------------------------------------------------------------------
(* Properties of the results' annotations *)

\* C37: in every result of get_price and allergens_for, is_degraded is true
\* if and only if the reasons list is non-empty.
C37_DegradedIffReasons ==
    \A c \in DonePrice \cup DoneAllergen :
        Result(c).is_degraded <=> (Result(c).reasons # <<>>)

\* A get_price run that returned the mirror's price, degraded, with its
\* reasons, next to an allergens_for run that returned the checker's items,
\* not degraded, without reasons.
C37_Witness ==
    /\ \E c \in DonePrice :
          /\ Result(c).is_degraded
          /\ Len(Result(c).reasons) = 2
          /\ Result(c).reasons[2] = "used_mirror"
    /\ \E c \in DoneAllergen :
          /\ ~Result(c).is_degraded
          /\ Result(c).reasons = <<>>

\* C38: in every get_price result, freshness is set if and only if the value
\* came from the cache step (last reason used_cache); results from the
\* primary region, the mirror region and the baseline estimate carry no
\* freshness.
C38_FreshnessIffCache ==
    \A c \in DonePrice :
        LET res == Result(c)
            last == chains[c].trail[Len(chains[c].trail)]
            from_cache == res.reasons # <<>> /\ res.reasons[Len(res.reasons)] = "used_cache"
        IN  /\ (res.freshness # <<>>) <=> from_cache
            /\ from_cache <=> (last = <<"cache">>)
            /\ last[1] \in {"success", "baseline"} => res.freshness = <<>>

\* A run returned the cached price of an entry half an hour old, labelled so,
\* next to a run that returned a region's price without freshness.
C38_Witness ==
    /\ \E c \in DonePrice :
          /\ chains[c].trail[Len(chains[c].trail)] = <<"cache">>
          /\ Result(c).reasons[Len(Result(c).reasons)] = "used_cache"
          /\ Result(c).freshness[1].hours = 0
          /\ Result(c).freshness[1].mins = 30
    /\ \E c \in DonePrice :
          /\ PrimarySucceeded(chains[c].trail)
          /\ Result(c).freshness = <<>>

----------------------------------------------------------------------------
(* Independence of the breakers *)

\* The endpoints whose breaker a chain operates on in this step: it starts a
\* call there (can_probe, enter_probe) or reports a call's outcome.
Operated ==
    {x \in Endpoints :
        \E c \in Chains : \E i \in DOMAIN StepEvents(c) :
            /\ StepEvents(c)[i][1] \in {"call", "success", "failure"}
            /\ StepEvents(c)[i][2] = x}

\* C39: breakers are independent: an operation on one endpoint's breaker
\* (success, failure, enter_probe, or a chain step on that endpoint) leaves
\* the state, window and openedAt of every other breaker unchanged; in
\* particular a get_price run whose primary succeeds does not touch the
\* mirror region's breaker.
C39_BreakersIndependent ==
    [][/\ \A x \in Endpoints \ Operated : brk'[x] = brk[x] /\ hist'[x] = hist[x]
       /\ \A c \in Chains :
            (/\ chains[c].kind = "price"
             /\ chains[c].pc = "calling"
             /\ chains[c].step = "primary"
             /\ CountEvents(StepEvents(c), {"success"}) = 1) =>
                /\ Operated = {chains[c].primary}
                /\ brk'[Mirror(chains[c].primary)] = brk[Mirror(chains[c].primary)]
                /\ brk'["allergen"] = brk["allergen"]]_vars

\* A get_price run's primary call succeeded: the primary's breaker holds the
\* sample, the mirror's breaker is as constructed; the allergen breaker has
\* tripped on a failure of its own.
C39_Witness ==
    \E c \in DonePrice :
        /\ PrimarySucceeded(chains[c].trail)
        /\ Len(brk[chains[c].primary].outcomes) = 1
        /\ brk[Mirror(chains[c].primary)] = NewBreaker
        /\ hist[Mirror(chains[c].primary)] = <<>>
        /\ brk["allergen"].state = "open"
        /\ brk[chains[c].primary].state = "closed"

----------------------------------------------------------------------------
(* The time of the last trip *)

\* C40: a breaker's openedAt changes only in a step that moves the state
\* into open (from closed or probe), where it is set to the current monotonic
\* time; it never decreases, and failures reported while the breaker is
\* already open do not extend the cooldown.
C40_OpenedAtSetOnlyByTrip ==
    [][\A e \in Endpoints :
        LET before == brk[e].last_opened_at_ms
            after == brk'[e].last_opened_at_ms
            trips == brk[e].state # "open" /\ brk'[e].state = "open"
        IN  /\ after # before => trips
            /\ trips => after = now
            /\ after >= before
            /\ now' >= now
            /\ (brk[e].state = "open" /\ FailureStep(e)) =>
                  /\ after = before
                  /\ \A t \in LaterReadings :
                        can_probe(brk'[e], conf[e], t) <=> can_probe(brk[e], conf[e], t)]_vars

\* A breaker that tripped after the clock had advanced, and is still open
\* later on: its openedAt is the time of that trip.
C40_Witness ==
    /\ brk[UnitEndpoint].state = "open"
    /\ tripAt[UnitEndpoint] > 0
    /\ brk[UnitEndpoint].last_opened_at_ms = tripAt[UnitEndpoint]
    /\ now > tripAt[UnitEndpoint]
    /\ ~Ok(hist[UnitEndpoint][Len(hist[UnitEndpoint])])
    /\ Len(hist[UnitEndpoint]) > conf[UnitEndpoint].sample_size

----------------------------------------------------------------------------
(* Recovery *)

\* C34: if from some point on every call to an endpoint succeeds with a
\* duration below max_p95_ms, and requests for that endpoint keep arriving
\* after each cooldown, then its breaker is eventually in state closed and
\* stays closed from then on.
C34_EventuallyClosedForGood ==
    <>[](brk[RecoverRegion].state = "closed")

\* A breaker left open by a burst of failures was probed, re-opened by the
\* failures still in its window, probed again and closed; its window holds
\* successes only.
C34_Witness ==
    /\ brk[RecoverRegion].state = "closed"
    /\ probed[RecoverRegion]
    /\ tripAt[RecoverRegion] > 0
    /\ Fails(SubSeq(hist[RecoverRegion], 1, TestSampleSize)) = TestSampleSize
    /\ Fails(brk[RecoverRegion].outcomes) = 0
    /\ Len(brk[RecoverRegion].outcomes) = conf[RecoverRegion].sample_size

====
